---- MODULE Spec2Model ----
(***************************************************************************)
(* Model of lib/prepare.js of cordova-android: the prepare() sequence and  *)
(* the launcher icon resolution (updateIcons, prepareIcons, the adaptive   *)
(* and legacy passes, mapImageResources).                                  *)
(*                                                                         *)
(* Conventions of the model:                                               *)
(*   - a JavaScript string that the code inspects (a source path, a file   *)
(*     name) is a sequence of one-character strings, so that startsWith,   *)
(*     endsWith, path.basename, path.extname and toLowerCase are computed  *)
(*     and not assumed;                                                    *)
(*   - undefined / null / '' are the empty sequence for such strings, ""   *)
(*     for a density or a platform, 0 for a width or height (ConfigParser  *)
(*     yields undefined for a missing or zero number);                     *)
(*   - a target path is <<directory, file name>> below the platform's res  *)
(*     directory (the constant prefix platformResourcesDir is dropped);    *)
(*   - an icon object is identified by its index in the icons array, which *)
(*     is how the model keeps JavaScript's object references.              *)
(***************************************************************************)
EXTENDS Integers, Sequences, FiniteSets, TLC

(***************************************************************************)
(* Bounds of the model.                                                    *)
(***************************************************************************)
\* the longest list of <icon> declarations a descriptor holds
MaxIcons == 2

\* versions have at most MaxParts dot-separated components
MaxParts == 3

\* updateProjectTheme runs at most MaxRuns times on a project
MaxRuns == 2

\* the icon declarations of a config.xml that is prepared, cleaned and
\* prepared again
MaxCleanIcons == 1

(***************************************************************************)
(* Strings.                                                                *)
(***************************************************************************)
UPPER == <<"A","B","C","D","E","F","G","H","I","J","K","L","M",
           "N","O","P","Q","R","S","T","U","V","W","X","Y","Z">>
LOWER == <<"a","b","c","d","e","f","g","h","i","j","k","l","m",
           "n","o","p","q","r","s","t","u","v","w","x","y","z">>

\* the characters the model uses, in code-unit order (what Array.sort compares)
ASCII == <<"-", ".", "/", "9", "@">> \o UPPER \o <<"_">> \o LOWER

Code(c) == CHOOSE k \in 1..Len(ASCII) : ASCII[k] = c

Range(s) == { s[k] : k \in 1..Len(s) }

\* String.prototype.toLowerCase on one character, then on a string
LowerChar(c) ==
  IF c \in Range(UPPER) THEN LOWER[CHOOSE k \in 1..26 : UPPER[k] = c] ELSE c

toLowerCase(s) == [k \in 1..Len(s) |-> LowerChar(s[k])]

startsWith(s, prefix) ==
  /\ Len(s) >= Len(prefix)
  /\ SubSeq(s, 1, Len(prefix)) = prefix

endsWith(s, suffix) ==
  /\ Len(s) >= Len(suffix)
  /\ SubSeq(s, Len(s) - Len(suffix) + 1, Len(s)) = suffix

\* s.indexOf(c) + 1: the first position of c in s, 0 when there is none
IndexOf(s, c) ==
  IF \E k \in 1..Len(s) : s[k] = c
  THEN CHOOSE k \in 1..Len(s) : s[k] = c /\ \A j \in 1..(k - 1) : s[j] # c
  ELSE 0

\* index of the last occurrence of character c in s, 0 when there is none
LastIndexOf(s, c) ==
  IF \E k \in 1..Len(s) : s[k] = c
  THEN CHOOSE k \in 1..Len(s) : s[k] = c /\ \A j \in (k+1)..Len(s) : s[j] # c
  ELSE 0

\* path.basename: what follows the last separator
basename(p) == SubSeq(p, LastIndexOf(p, "/") + 1, Len(p))

\* path.extname of a base name: from the last dot to the end; '' when there
\* is no dot, when the only dot is the first character, and for '..'
extname(name) ==
  LET d == LastIndexOf(name, ".")
  IN  IF d = 0 \/ d = 1 \/ name = <<".", ".">>
      THEN <<>>
      ELSE SubSeq(name, d, Len(name))

\* lexicographic order of two strings by code unit
RECURSIVE StrLess(_, _)
StrLess(a, b) ==
  IF b = <<>> THEN FALSE
  ELSE IF a = <<>> THEN TRUE
  ELSE IF a[1] # b[1] THEN Code(a[1]) < Code(b[1])
  ELSE StrLess(Tail(a), Tail(b))

(***************************************************************************)
(* String literals of the source.                                          *)
(***************************************************************************)
AT_COLOR      == <<"@","c","o","l","o","r">>
DOT_XML       == <<".","x","m","l">>
DOT_PNG       == <<".","p","n","g">>
DOT_9_PNG     == <<".","9",".","p","n","g">>
IC_LAUNCHER   == <<"i","c","_","l","a","u","n","c","h","e","r">>
IC_BACKGROUND == IC_LAUNCHER \o <<"_","b","a","c","k","g","r","o","u","n","d">>
IC_FOREGROUND == IC_LAUNCHER \o <<"_","f","o","r","e","g","r","o","u","n","d">>
IC_MONOCHROME == IC_LAUNCHER \o <<"_","m","o","n","o","c","h","r","o","m","e">>

\* undefined / null for a path, and the delete sentinel of a sync map
NULL == <<>>

(***************************************************************************)
(* Icon declarations, as ConfigParser.getIcons('android') returns them.    *)
(***************************************************************************)
Icon(density, width, height, platform, src, foreground, background, monochrome) ==
  [density |-> density, width |-> width, height |-> height, platform |-> platform,
   src |-> src, foreground |-> foreground, background |-> background,
   monochrome |-> monochrome]

\* source paths and color references used by the declarations of the model
SRC_A_PNG   == <<"a",".","p","n","g">>                   \* a.png
SRC_B_9_PNG == <<"r","/","b",".","9",".","p","n","g">>   \* r/b.9.png
SRC_C_JPG   == <<"C",".","J","P","G">>                   \* C.JPG
SRC_D_9_PNG == <<"d",".","9",".","P","N","G">>           \* d.9.PNG
FG_PNG      == <<"r","/","f",".","p","n","g">>           \* r/f.png
FG_XML      == <<"v",".","x","m","l">>                   \* v.xml
BG_PNG      == <<"g",".","p","n","g">>                   \* g.png
MONO_XML    == <<"m",".","x","m","l">>                   \* m.xml
COLOR_B     == AT_COLOR \o <<"/","b">>                   \* @color/b

\* where a declaration goes: <<density, width, height, platform>>
Shapes ==
  { <<"mdpi", 0, 0, "">>,           \* density given
    <<"mdpi", 0, 0, "android">>,    \* density given, inside <platform name="android">
    <<"hdpi", 48, 0, "">>,          \* density given, and a width of another density
    <<"", 72, 0, "">>,              \* width 72: hdpi by size
    <<"", 0, 96, "">>,              \* height 96 and no width: xhdpi by size
    <<"", 0, 0, "">>,               \* neither density nor size: a default icon
    <<"", 50, 60, "">>,             \* a size outside the table
    <<"xxxhdpi", 0, 0, "">> }

\* what a declaration holds: <<src, foreground, background, monochrome>>
Contents ==
  { <<SRC_A_PNG, NULL, NULL, NULL>>,          \* legacy icon
    <<SRC_B_9_PNG, NULL, NULL, NULL>>,        \* legacy nine-patch icon
    <<SRC_D_9_PNG, NULL, NULL, MONO_XML>>,    \* legacy icon with a monochrome layer
    <<NULL, FG_PNG, BG_PNG, MONO_XML>>,       \* adaptive, raster foreground, no src
    <<NULL, FG_PNG, NULL, NULL>>,             \* foreground without background
    <<SRC_A_PNG, NULL, COLOR_B, NULL>>,       \* background without foreground
    <<NULL, NULL, NULL, NULL>>,               \* nothing at all
    <<NULL, COLOR_B, COLOR_B, NULL>>,         \* adaptive, color foreground, no src
    <<NULL, FG_XML, NULL, NULL>>,             \* vector foreground alone, no src
    <<SRC_C_JPG, FG_XML, COLOR_B, COLOR_B>> } \* adaptive with src, monochrome a color

MkIcon(shape, content) ==
  Icon(shape[1], shape[2], shape[3], shape[4],
       content[1], content[2], content[3], content[4])

\* what the declarations of the density taken from a width hold
SizedContents ==
  { <<SRC_B_9_PNG, NULL, NULL, NULL>>,
    <<NULL, FG_PNG, BG_PNG, MONO_XML>>,
    <<NULL, COLOR_B, COLOR_B, NULL>>,
    <<SRC_C_JPG, FG_XML, COLOR_B, NULL>> }

IconVariants ==
  { MkIcon(s, <<SRC_A_PNG, NULL, NULL, NULL>>) : s \in Shapes }
    \cup { MkIcon(s, c) : s \in { <<"mdpi", 0, 0, "">>, <<"", 0, 0, "">> },
                           c \in Contents }
    \cup { MkIcon(<<"", 72, 0, "">>, c) : c \in SizedContents }
    \cup { MkIcon(<<"", 50, 60, "">>, <<NULL, NULL, NULL, NULL>>) }

\* getIcons('android') lists the declarations inside <platform name="android">
\* before the root-level ones
platformFirst(list) ==
  \A j, k \in 1..Len(list) : (j < k /\ list[k].platform # "") => list[j].platform # ""

IconLists ==
  { list \in UNION { [1..n -> IconVariants] : n \in 0..MaxIcons } : platformFirst(list) }

(***************************************************************************)
(* The densities and the directories of the platform's res directory.      *)
(***************************************************************************)
DENSITIES == <<"ldpi", "mdpi", "hdpi", "xhdpi", "xxhdpi", "xxxhdpi">>

\* the directory of a density: `${type}-${density}` and type-density-v26
LegacyDir(density)   == "mipmap-" \o density
AdaptiveDir(density) == "mipmap-" \o density \o "-v26"

\* the mipmap directories in the order Array.sort gives their paths
\* ('-' sorts before '/', so mipmap-hdpi-v26/x precedes mipmap-hdpi/x)
SORTED_DIRS ==
  << "mipmap-hdpi-v26", "mipmap-hdpi", "mipmap-ldpi-v26", "mipmap-ldpi",
     "mipmap-mdpi-v26", "mipmap-mdpi", "mipmap-xhdpi-v26", "mipmap-xhdpi",
     "mipmap-xxhdpi-v26", "mipmap-xxhdpi", "mipmap-xxxhdpi-v26", "mipmap-xxxhdpi",
     "mipmap" >>

DirsOf(ds) == { LegacyDir(d) : d \in ds } \cup { AdaptiveDir(d) : d \in ds }

\* the res directory a prepare may find: with the mipmap directories of one
\* density only, or with those of several densities
InitialDirs ==
  { DirsOf({"mdpi"}), DirsOf({"mdpi", "hdpi", "xxxhdpi"}) }

(***************************************************************************)
(* State.                                                                  *)
(***************************************************************************)
VARIABLES
  pc,             \* the step of prepare() that runs next, "done" or "failed"
  written,        \* the build artifacts written so far and not cleaned since
  events,         \* the diagnostics emitted so far, in order
  error,          \* the error that rejected the promise, NoError if none
  dirs,           \* the mipmap-* directories that exist below res
  files,          \* the launcher files below res: path -> content
  configIcons,    \* the <icon> declarations of config.xml, as declared
  icons,          \* updateIcons: the array getIcons returned (src is filled in)
  hasAdaptive,    \* updateIcons: some declaration has a foreground
  resourceMap,    \* updateIcons: the sync map, target path -> source or NULL
  i,              \* prepareIcons: the loop index
  android_icons,  \* prepareIcons: density -> index of the icon kept for it
  android_keys,   \* prepareIcons: the keys of android_icons in insertion order
  default_icon,   \* prepareIcons: index of the default icon, 0 if undefined
  synced,         \* updateIcons has handed resourceMap to FileUpdater.updatePaths
  version,        \* the version attribute of config.xml
  versionParts,   \* how that version was put together: its components and suffix
  versionCode,    \* default_versionCode: the local versionCode
  preferences,    \* the preferences of config.xml: name -> value, '' when not set
  themes,         \* res/values/cdv_themes.xml
  colors,         \* res/values/cdv_colors.xml
  drawables,      \* the splash screen images below res
  themeRuns,      \* how often updateProjectTheme has run
  firstPrepare,   \* what the prepare before the last clean had left, NoOutput before
  cleanCall       \* the last call of clean: its options, and whether config.xml existed

versionVars == << version, versionParts, versionCode >>

themeVars == << preferences, themes, colors, drawables, themeRuns >>

cleanVars == << firstPrepare, cleanCall >>

\* the state most steps of prepare() leave alone
otherVars == << versionVars, themeVars, cleanVars >>

vars == << pc, written, events, error, dirs, files, configIcons, icons,
           hasAdaptive, resourceMap, i, android_icons, android_keys,
           default_icon, synced, otherVars >>

iconVars == << configIcons, icons, hasAdaptive, resourceMap, i, android_icons,
               android_keys, default_icon, synced >>

NoError == [name |-> "", message |-> <<>>]

\* a function with no argument: an empty object {} or an empty directory
Empty == [x \in {} |-> NULL]

\* the platform project before prepare() runs
ProjectInit ==
  /\ pc = "updateConfigFilesFrom"
  /\ written = {}
  /\ events = <<>>
  /\ error = NoError
  /\ dirs \in InitialDirs
  /\ files = Empty
  /\ configIcons = <<>>
  /\ icons = <<>>
  /\ hasAdaptive = FALSE
  /\ resourceMap = Empty
  /\ i = 0
  /\ android_icons = Empty
  /\ android_keys = <<>>
  /\ default_icon = 0
  /\ synced = FALSE

\* the versions of the model: up to MaxParts components joined by '.', then
\* nothing or a pre-release suffix that itself holds a '.' and a number
VersionComponents ==
  { <<>>, <<"0">>, <<"1">>, <<"2">>, <<"3">>, <<"4">>, <<"1","2">>, <<"x">>, <<"1","a">> }

VersionSuffixes == { <<>>, <<"-","r","c",".","1">> }

VersionInputs ==
  { [parts |-> ps, suffix |-> x] :
      ps \in UNION { [1..n -> VersionComponents] : n \in 1..MaxParts },
      x \in VersionSuffixes }

RECURSIVE join(_, _)
join(parts, separator) ==
  IF Len(parts) = 0 THEN <<>>
  ELSE IF Len(parts) = 1 THEN parts[1]
  ELSE parts[1] \o separator \o join(Tail(parts), separator)

\* the version attribute as config.xml holds it
versionOf(input) == join(input.parts, <<".">>) \o input.suffix

\* a project of version 1.0.0
VersionInit ==
  /\ versionParts = [parts |-> << <<"1">>, <<"0">>, <<"0">> >>, suffix |-> <<>>]
  /\ version = versionOf(versionParts)
  /\ versionCode = 0

(***************************************************************************)
(* The theme, the colors and the splash screen images of the platform.     *)
(***************************************************************************)
\* names of preferences of config.xml
PREF ==
  [ edgeToEdge |-> <<"A","n","d","r","o","i","d","E","d","g","e","T","o","E","d","g","e">>,
    splashBackground |-> <<"A","n","d","r","o","i","d","W","i","n","d","o","w","S","p","l","a","s","h","S","c","r","e","e","n","B","a","c","k","g","r","o","u","n","d">>,
    splashBackgroundColor |-> <<"S","p","l","a","s","h","S","c","r","e","e","n","B","a","c","k","g","r","o","u","n","d","C","o","l","o","r">>,
    backgroundColor |-> <<"B","a","c","k","g","r","o","u","n","d","C","o","l","o","r">>,
    animatedIcon |-> <<"A","n","d","r","o","i","d","W","i","n","d","o","w","S","p","l","a","s","h","S","c","r","e","e","n","A","n","i","m","a","t","e","d","I","c","o","n">>,
    animationDuration |-> <<"A","n","d","r","o","i","d","W","i","n","d","o","w","S","p","l","a","s","h","S","c","r","e","e","n","A","n","i","m","a","t","i","o","n","D","u","r","a","t","i","o","n">>,
    brandingImage |-> <<"A","n","d","r","o","i","d","W","i","n","d","o","w","S","p","l","a","s","h","S","c","r","e","e","n","B","r","a","n","d","i","n","g","I","m","a","g","e">>,
    iconBackgroundColor |-> <<"A","n","d","r","o","i","d","W","i","n","d","o","w","S","p","l","a","s","h","S","c","r","e","e","n","I","c","o","n","B","a","c","k","g","r","o","u","n","d","C","o","l","o","r">>,
    postTheme |-> <<"A","n","d","r","o","i","d","P","o","s","t","S","p","l","a","s","h","S","c","r","e","e","n","T","h","e","m","e">> ]

\* names of the items of the style Theme.App.SplashScreen
ITEM ==
  [ optOutE2E |-> <<"a","n","d","r","o","i","d",":","w","i","n","d","o","w","O","p","t","O","u","t","E","d","g","e","T","o","E","d","g","e","E","n","f","o","r","c","e","m","e","n","t">>,
    background |-> <<"w","i","n","d","o","w","S","p","l","a","s","h","S","c","r","e","e","n","B","a","c","k","g","r","o","u","n","d">>,
    animatedIcon |-> <<"w","i","n","d","o","w","S","p","l","a","s","h","S","c","r","e","e","n","A","n","i","m","a","t","e","d","I","c","o","n">>,
    animationDuration |-> <<"w","i","n","d","o","w","S","p","l","a","s","h","S","c","r","e","e","n","A","n","i","m","a","t","i","o","n","D","u","r","a","t","i","o","n">>,
    brandingImage |-> <<"a","n","d","r","o","i","d",":","w","i","n","d","o","w","S","p","l","a","s","h","S","c","r","e","e","n","B","r","a","n","d","i","n","g","I","m","a","g","e">>,
    iconBackgroundColor |-> <<"w","i","n","d","o","w","S","p","l","a","s","h","S","c","r","e","e","n","I","c","o","n","B","a","c","k","g","r","o","u","n","d","C","o","l","o","r">>,
    postTheme |-> <<"p","o","s","t","S","p","l","a","s","h","S","c","r","e","e","n","T","h","e","m","e">> ]

\* the texts, node names and file names updateProjectTheme writes
TEXT ==
  [ true |-> <<"t","r","u","e">>,
    false |-> <<"f","a","l","s","e">>,
    splashBackground |-> <<"@","c","o","l","o","r","/","c","d","v","_","s","p","l","a","s","h","s","c","r","e","e","n","_","b","a","c","k","g","r","o","u","n","d">>,
    duration |-> <<"2","0","0">>,
    postTheme |-> <<"@","s","t","y","l","e","/","T","h","e","m","e",".","C","o","r","d","o","v","a",".","A","p","p",".","D","a","y","N","i","g","h","t">>,
    iconBackground |-> <<"@","c","o","l","o","r","/","c","d","v","_","s","p","l","a","s","h","s","c","r","e","e","n","_","i","c","o","n","_","b","a","c","k","g","r","o","u","n","d">>,
    branding |-> <<"@","d","r","a","w","a","b","l","e","/","i","c","_","c","d","v","_","s","p","l","a","s","h","s","c","r","e","e","n","_","b","r","a","n","d","i","n","g">>,
    splash |-> <<"@","d","r","a","w","a","b","l","e","/","i","c","_","c","d","v","_","s","p","l","a","s","h","s","c","r","e","e","n">>,
    iconBackgroundNode |-> <<"c","d","v","_","s","p","l","a","s","h","s","c","r","e","e","n","_","i","c","o","n","_","b","a","c","k","g","r","o","u","n","d">>,
    splashBackgroundNode |-> <<"c","d","v","_","s","p","l","a","s","h","s","c","r","e","e","n","_","b","a","c","k","g","r","o","u","n","d">>,
    icSplash |-> <<"i","c","_","c","d","v","_","s","p","l","a","s","h","s","c","r","e","e","n">>,
    icBranding |-> <<"i","c","_","c","d","v","_","s","p","l","a","s","h","s","c","r","e","e","n","_","b","r","a","n","d","i","n","g">>,
    templates |-> <<"t","e","m","p","l","a","t","e","s","/","p","r","o","j","e","c","t","/","r","e","s","/","d","r","a","w","a","b","l","e","/">> ]

\* the source of the default drawable: templates/project/res/drawable/<name>
TemplateDrawable(name) == TEXT.templates \o name

\* the items of the style in the project template, and the same style with
\* the optional items a former prepare may have added
TemplateItems ==
  [n \in { ITEM.optOutE2E, ITEM.background, ITEM.animatedIcon, ITEM.animationDuration, ITEM.postTheme } |->
     CASE n = ITEM.optOutE2E -> TEXT.true
       [] n = ITEM.background -> TEXT.splashBackground
       [] n = ITEM.animatedIcon -> TEXT.splash
       [] n = ITEM.animationDuration -> TEXT.duration
       [] n = ITEM.postTheme -> TEXT.postTheme]

\* node.text = text, appending the node when the document has none
setText(nodes, name, text) ==
  [n \in DOMAIN nodes \cup {name} |-> IF n = name THEN text ELSE nodes[n]]

\* parent.remove(node)
removeNode(nodes, name) == [n \in DOMAIN nodes \ {name} |-> nodes[n]]

\* cdv_themes.xml: the items of the style and the xmlns:tools attribute of the root
TemplateThemes == [items |-> TemplateItems, tools |-> FALSE]

InitialThemes ==
  { TemplateThemes,
    [items |-> setText(TemplateItems, ITEM.iconBackgroundColor, TEXT.iconBackground), tools |-> FALSE],
    [items |-> setText(TemplateItems, ITEM.brandingImage, TEXT.branding), tools |-> TRUE] }

\* cdv_colors.xml: its color nodes
TemplateColors == [n \in { TEXT.splashBackgroundNode } |-> <<"#","F","F","F","F","F","F">>]

InitialColors ==
  { TemplateColors, setText(TemplateColors, TEXT.iconBackgroundNode, <<"#","0","0","0">>) }

\* the splash screen images below res: path -> the file copied there
TemplateDrawables ==
  [p \in { << "drawable", TEXT.icSplash \o DOT_XML >> } |-> TemplateDrawable(TEXT.icSplash \o DOT_XML)]

\* the files of the project that a preference may name
ProjectFiles == { <<"r","e","s","/","s",".","p","n","g">>, <<"r","e","s","/","s",".","x","m","l">>, <<"r","e","s","/","S",".","P","N","G">>, <<"r","e","s","/","s",".","j","p","g">> }

\* the values config.xml may give each preference ('' when it is not set)
PreferenceValues(name) ==
  CASE name = PREF.edgeToEdge ->
         { NULL, TEXT.true, TEXT.false, <<"T","R","U","E">>, <<"y","e","s">> }
    [] name = PREF.iconBackgroundColor ->
         { NULL, <<"#","1","2","3">>, <<"o","'","c">> }
    [] name = PREF.splashBackground -> { NULL, <<"#","1","1","1">> }
    [] name = PREF.splashBackgroundColor -> { NULL, <<"#","2","2","2">> }
    [] name = PREF.animatedIcon ->
         { NULL, <<"r","e","s","/","s",".","p","n","g">>, <<"r","e","s","/","s",".","x","m","l">>,
           <<"r","e","s","/","n",".","p","n","g">>,           \* no such file
           <<"r","e","s","/","s",".","j","p","g">> }          \* neither .png nor .xml
    [] name = PREF.brandingImage ->
         { NULL, <<"r","e","s","/","S",".","P","N","G">>, <<"r","e","s","/","s",".","x","m","l">>, <<"r","e","s","/","n",".","p","n","g">>, <<"r","e","s","/","s",".","j","p","g">> }
    [] OTHER -> { NULL }

PreferenceNames ==
  { PREF.edgeToEdge, PREF.splashBackground, PREF.splashBackgroundColor, PREF.backgroundColor,
    PREF.animatedIcon,
    PREF.animationDuration,
    PREF.brandingImage,
    PREF.iconBackgroundColor,
    PREF.postTheme }

\* the preferences of a config.xml that sets the six of them given
Preferences(e2e, iconBackground, splashBackground, splashBackgroundColor, animatedIcon, brandingImage) ==
  [n \in PreferenceNames |->
     CASE n = PREF.edgeToEdge -> e2e
       [] n = PREF.iconBackgroundColor -> iconBackground
       [] n = PREF.splashBackground -> splashBackground
       [] n = PREF.splashBackgroundColor -> splashBackgroundColor
       [] n = PREF.animatedIcon -> animatedIcon
       [] n = PREF.brandingImage -> brandingImage
       [] OTHER -> NULL]

\* the config.xml files of the model: every combination of the edge-to-edge,
\* icon background and splash background preferences, with and without a
\* branding image, and every combination of the image and legacy background
\* preferences
PreferenceInputs ==
  { Preferences(e, c, b, NULL, NULL, r) :
      e \in PreferenceValues(PREF.edgeToEdge),
      c \in PreferenceValues(PREF.iconBackgroundColor),
      b \in PreferenceValues(PREF.splashBackground),
      r \in { NULL, <<"r","e","s","/","S",".","P","N","G">> } }
  \cup
  { Preferences(NULL, NULL, NULL, l, a, r) :
      l \in PreferenceValues(PREF.splashBackgroundColor),
      a \in PreferenceValues(PREF.animatedIcon),
      r \in PreferenceValues(PREF.brandingImage) }

NoPreferences == [n \in PreferenceNames |-> NULL]

\* a project from the template whose config.xml sets no preference
ThemeInit ==
  /\ preferences = NoPreferences
  /\ themes = TemplateThemes
  /\ colors = TemplateColors
  /\ drawables = TemplateDrawables
  /\ themeRuns = 0

\* what a prepare leaves below the platform directory
Output(fs, existing, artifacts, style, palette, images) ==
  [files |-> fs, dirs |-> existing, written |-> artifacts,
   themes |-> style, colors |-> palette, drawables |-> images]

\* no prepare has been followed by a clean
NoOutput == Output(Empty, {}, {}, TemplateThemes, Empty, Empty)

CleanInit ==
  /\ firstPrepare = NoOutput
  /\ cleanCall = [noPrepare |-> FALSE, configXml |-> TRUE]

Init ==
  /\ ProjectInit
  /\ VersionInit
  /\ ThemeInit
  /\ CleanInit

(***************************************************************************)
(* Diagnostics.                                                            *)
(***************************************************************************)
\* events.emit(level, message)
emit(log, level, message, about) ==
  Append(log, [level |-> level, message |-> message, about |-> about])

(***************************************************************************)
(* updateProjectTheme and the functions it calls.                          *)
(***************************************************************************)
\* platformConfig.getPreference(name, this.platform): '' when it is not set
getPreference(prefs, name) == IF name \in DOMAIN prefs THEN prefs[name] ELSE NULL

\* hasE2E that compares the lower-cased preference
hasE2E_mut(preferenceE2E) == toLowerCase(preferenceE2E) = TEXT.true

\* let hasE2E = false; ... hasE2E = hasInvalidPreferenceE2E ? false : preferenceE2E === 'true'
hasE2E(preferenceE2E) ==
  IF preferenceE2E = NULL THEN FALSE
  ELSE IF preferenceE2E # TEXT.true /\ preferenceE2E # TEXT.false THEN FALSE
  ELSE preferenceE2E = TEXT.true

\* the diagnostics of the edge-to-edge block and the item it sets; st carries
\* the documents, the images and the diagnostics of one updateProjectTheme
updateE2E(st, preferenceE2E) ==
  LET hasInvalidPreferenceE2E == preferenceE2E # TEXT.true /\ preferenceE2E # TEXT.false
      log1 == IF preferenceE2E = NULL
              THEN emit(st.events, "verbose", "The preference name AndroidEdgeToEdge was not set. Defaulting to false.", 0)
              ELSE IF hasInvalidPreferenceE2E
              THEN emit(st.events, "verbose", "Preference name AndroidEdgeToEdge has an invalid value. Valid values are true or false. Defaulting to false", 0)
              ELSE st.events
      optOutE2EValue == IF ~hasE2E(preferenceE2E) THEN TEXT.true ELSE TEXT.false
  IN  [st EXCEPT !.themes.items = setText(@, ITEM.optOutE2E, optOutE2EValue),
                 !.events = emit(log1, "verbose",
                                 IF optOutE2EValue = TEXT.true
                                 THEN "Updating theme item android:windowOptOutEdgeToEdgeEnforcement with value true"
                                 ELSE "Updating theme item android:windowOptOutEdgeToEdgeEnforcement with value false", 0)]

\* the first of the three background preferences that is set, else the default
splashBg(prefs) ==
  IF getPreference(prefs, PREF.splashBackground) # NULL THEN getPreference(prefs, PREF.splashBackground)
  ELSE IF getPreference(prefs, PREF.splashBackgroundColor) # NULL THEN getPreference(prefs, PREF.splashBackgroundColor)
  ELSE IF getPreference(prefs, PREF.backgroundColor) # NULL THEN getPreference(prefs, PREF.backgroundColor)
  ELSE TEXT.splashBackground

updateSplashBg(st, prefs) ==
  [st EXCEPT !.themes.items = setText(@, ITEM.background, splashBg(prefs)),
             !.events = emit(@, "verbose", "The Android Splash Screen background color was set to", 0)]

\* c.toUpperCase() of one character
UpperChar(c) ==
  IF \E k \in 1..Len(LOWER) : LOWER[k] = c
  THEN UPPER[CHOOSE k \in 1..Len(LOWER) : LOWER[k] = c]
  ELSE c

\* 'Android' + themeKey.charAt(index).toUpperCase() + themeKey.slice(index + 1)
\* with index = themeKey.indexOf(':') + 1
cdvConfigPrefKey(themeKey) ==
  LET index == IndexOf(themeKey, ":")
  IN  <<"A","n","d","r","o","i","d">> \o << UpperChar(themeKey[index + 1]) >>
        \o SubSeq(themeKey, index + 2, Len(themeKey))

\* s.replace(/'/g, '\\\''): a backslash before every apostrophe
RECURSIVE escapeApostrophes(_)
escapeApostrophes(s) ==
  IF Len(s) = 0 THEN <<>>
  ELSE (IF s[1] = "'" THEN << "\\", "'" >> ELSE << s[1] >>) \o escapeApostrophes(Tail(s))

\* updateProjectSplashScreenIconBackgroundColor without the removal of the node
iconBackgroundColorNodes_mut(nodes, splashIconBackgroundColor) ==
  setText(nodes, TEXT.iconBackgroundNode, escapeApostrophes(splashIconBackgroundColor))

\* the color nodes updateProjectSplashScreenIconBackgroundColor writes out
iconBackgroundColorNodes(nodes, splashIconBackgroundColor) ==
  IF splashIconBackgroundColor = NULL /\ TEXT.iconBackgroundNode \in DOMAIN nodes
  THEN removeNode(nodes, TEXT.iconBackgroundNode)
  ELSE IF splashIconBackgroundColor # NULL
  THEN setText(nodes, TEXT.iconBackgroundNode, escapeApostrophes(splashIconBackgroundColor))
  ELSE nodes

updateProjectSplashScreenIconBackgroundColor(st, splashIconBackgroundColor) ==
  [st EXCEPT !.colors = iconBackgroundColorNodes(@, splashIconBackgroundColor),
             !.events = emit(@, "verbose", "Wrote out Android application SplashScreen Icon Color", 0)]

\* fs.existsSync of a file of the project, of the template or below res
existsSync(fs, file) ==
  \/ file \in ProjectFiles
  \/ file \in { TemplateDrawable(TEXT.icSplash \o DOT_XML) }
  \/ file \in DOMAIN fs

\* cleanupAndSetProjectSplashScreenImage that leaves the previous variant
cleanupAndSetProjectSplashScreenImage_mut(fs, srcFile, destFilePath, possiblePreviousDestFilePath, cleanupOnly) ==
  LET fs2 == IF cleanupOnly THEN removeNode(fs, destFilePath) ELSE fs
  IN  IF ~cleanupOnly /\ srcFile # NULL /\ existsSync(fs2, srcFile)
      THEN setText(fs2, destFilePath, srcFile)
      ELSE fs2

\* cleanupAndSetProjectSplashScreenImage(srcFile, destFilePath,
\* possiblePreviousDestFilePath, cleanupOnly); files below res are paths
\* <<directory, name>>, the others are strings
cleanupAndSetProjectSplashScreenImage(fs, srcFile, destFilePath, possiblePreviousDestFilePath, cleanupOnly) ==
  LET fs1 == removeNode(fs, possiblePreviousDestFilePath)
      fs2 == IF cleanupOnly THEN removeNode(fs1, destFilePath) ELSE fs1
  IN  IF ~cleanupOnly /\ srcFile # NULL /\ existsSync(fs2, srcFile)
      THEN setText(fs2, destFilePath, srcFile)
      ELSE fs2

\* updateProjectSplashScreenImage(locations, themeKey, cdvConfigPrefKey, cdvConfigPrefValue)
updateProjectSplashScreenImage(st, themeKey, value) ==
  LET destFileName == IF themeKey = ITEM.animatedIcon THEN TEXT.icSplash ELSE TEXT.icBranding
      png == << "drawable-nodpi", destFileName \o DOT_PNG >>
      xml == << "drawable", destFileName \o DOT_XML >>
      defaultSrcFilePath == IF themeKey # ITEM.brandingImage
                            THEN TemplateDrawable(destFileName \o DOT_XML) ELSE NULL
      iconExtension == toLowerCase(extname(basename(value)))
  IN  IF value = NULL \/ ~existsSync(st.drawables, value)
      THEN [st EXCEPT
              !.events = IF value # NULL
                         THEN emit(@, "warn", "The preference value does not exist. Cordova's default will be used.", 0)
                         ELSE emit(@, "verbose", "The preference is undefined. Cordova's default will be used.", 0),
              !.drawables = cleanupAndSetProjectSplashScreenImage(
                              @, defaultSrcFilePath, xml, png, themeKey = ITEM.brandingImage)]
      ELSE IF iconExtension = DOT_PNG
      THEN [st EXCEPT !.drawables = cleanupAndSetProjectSplashScreenImage(@, value, png, xml, FALSE)]
      ELSE IF iconExtension = DOT_XML
      THEN [st EXCEPT !.drawables = cleanupAndSetProjectSplashScreenImage(@, value, xml, png, FALSE)]
      ELSE [st EXCEPT
              !.events = emit(@, "warn", "The preference had an unsupported extension. Cordova's default will be used.", 0),
              !.drawables = cleanupAndSetProjectSplashScreenImage(@, defaultSrcFilePath, xml, png, FALSE)]

\* case 'android:windowSplashScreenBrandingImage'
brandingImage(st, value) ==
  LET warned == IF value # NULL
                THEN [st EXCEPT !.events = emit(@, "warn", "android:windowSplashScreenBrandingImage is currently not supported by the splash screen compatibility library.", 0)]
                ELSE st
      image == updateProjectSplashScreenImage(warned, ITEM.brandingImage, value)
  IN  IF value = NULL /\ ITEM.brandingImage \in DOMAIN image.themes.items
      THEN [image EXCEPT !.themes.items = removeNode(@, ITEM.brandingImage),
                         !.themes.tools = FALSE]
      ELSE IF value # NULL
      THEN [image EXCEPT !.themes.items = setText(@, ITEM.brandingImage, TEXT.branding),
                         !.themes.tools = IF ITEM.brandingImage \in DOMAIN image.themes.items
                                          THEN @ ELSE TRUE]
      ELSE image

\* case 'windowSplashScreenIconBackgroundColor'
iconBackgroundColor(st, value) ==
  LET color == updateProjectSplashScreenIconBackgroundColor(st, value)
  IN  IF value = NULL /\ ITEM.iconBackgroundColor \in DOMAIN color.themes.items
      THEN [color EXCEPT !.themes.items = removeNode(@, ITEM.iconBackgroundColor)]
      ELSE IF value # NULL
      THEN [color EXCEPT !.themes.items = setText(@, ITEM.iconBackgroundColor, TEXT.iconBackground)]
      ELSE color

\* the body of [...].forEach(themeKey => ...)
themeKeyCase(st, prefs, themeKey) ==
  LET cdvConfigPrefValue == getPreference(prefs, cdvConfigPrefKey(themeKey))
  IN  CASE themeKey = ITEM.animatedIcon ->
             updateProjectSplashScreenImage(st, themeKey, cdvConfigPrefValue)
        [] themeKey = ITEM.brandingImage -> brandingImage(st, cdvConfigPrefValue)
        [] themeKey = ITEM.iconBackgroundColor -> iconBackgroundColor(st, cdvConfigPrefValue)
        [] themeKey = ITEM.animationDuration ->
             [st EXCEPT !.themes.items =
                setText(@, themeKey, IF cdvConfigPrefValue # NULL THEN cdvConfigPrefValue
                                     ELSE TEXT.duration)]
        [] themeKey = ITEM.postTheme ->
             [st EXCEPT !.themes.items =
                setText(@, themeKey, IF cdvConfigPrefValue # NULL THEN cdvConfigPrefValue
                                     ELSE TEXT.postTheme)]

THEME_KEYS ==
  << ITEM.animatedIcon, ITEM.animationDuration, ITEM.brandingImage, ITEM.iconBackgroundColor, ITEM.postTheme >>

RECURSIVE forEachThemeKey(_, _, _)
forEachThemeKey(st, prefs, k) ==
  IF k > Len(THEME_KEYS) THEN st
  ELSE forEachThemeKey(themeKeyCase(st, prefs, THEME_KEYS[k]), prefs, k + 1)

\* updateProjectTheme(platformConfig, locations)
updateProjectTheme(st, prefs) ==
  LET done == forEachThemeKey(
                updateSplashBg(updateE2E(st, getPreference(prefs, PREF.edgeToEdge)), prefs),
                prefs, 1)
  IN  [done EXCEPT !.events = emit(@, "verbose", "Wrote out Android application themes", 0)]

(***************************************************************************)
(* prepare(): the steps before the icons.                                  *)
(***************************************************************************)
\* this._config = updateConfigFilesFrom(...): config.write()
UpdateConfigFilesFrom ==
  /\ pc = "updateConfigFilesFrom"
  /\ UNCHANGED otherVars
  /\ written' = written \cup {"config.xml"}
  /\ pc' = "updateUserProjectGradleConfig"
  /\ UNCHANGED << events, error, dirs, files, iconVars >>

\* updateUserProjectGradleConfig(this): fs.writeFileSync(cdv-gradle-config.json)
UpdateUserProjectGradleConfig ==
  /\ pc = "updateUserProjectGradleConfig"
  /\ UNCHANGED otherVars
  /\ written' = written \cup {"cdv-gradle-config.json"}
  /\ pc' = "updateUserProjectGradlePropertiesConfig"
  /\ UNCHANGED << events, error, dirs, files, iconVars >>

\* updateUserProjectGradlePropertiesConfig(this, args): gradlePropertiesParser.configure
UpdateUserProjectGradlePropertiesConfig ==
  /\ pc = "updateUserProjectGradlePropertiesConfig"
  /\ UNCHANGED otherVars
  /\ written' = written \cup {"gradle.properties"}
  /\ pc' = "updateWww"
  /\ UNCHANGED << events, error, dirs, files, iconVars >>

\* updateWww moved behind the icons: the step writes nothing at its place
UpdateWww_mut ==
  /\ pc = "updateWww"
  /\ UNCHANGED otherVars
  /\ events' = emit(events, "verbose", "Merging and updating files", 0)
  /\ pc' = "warnForDeprecatedSplashScreen"
  /\ UNCHANGED << written, error, dirs, files, iconVars >>

\* updateWww(cordovaProject, this.locations): FileUpdater.mergeAndUpdateDir
UpdateWww ==
  /\ pc = "updateWww"
  /\ UNCHANGED otherVars
  /\ written' = written \cup {"www"}
  /\ events' = emit(events, "verbose", "Merging and updating files", 0)
  /\ pc' = "warnForDeprecatedSplashScreen"
  /\ UNCHANGED << error, dirs, files, iconVars >>

\* warnForDeprecatedSplashScreen(cordovaProject): warns when config.xml has <splash> tags
WarnForDeprecatedSplashScreen ==
  /\ pc = "warnForDeprecatedSplashScreen"
  /\ UNCHANGED otherVars
  /\ \E hasOldSplashTags \in BOOLEAN :
       events' = IF hasOldSplashTags
                 THEN emit(events, "warn", "The <splash> tags were detected", 0)
                 ELSE events
  /\ pc' = "updateProjectAccordingTo"
  /\ UNCHANGED << written, error, dirs, files, iconVars >>

\* updateProjectAccordingTo(self._config, self.locations): strings, theme, gradle
\* name and manifest are written, the theme by updateProjectTheme; then the
\* activity is looked up, and with no Java file that extends CordovaActivity a
\* CordovaError is thrown
UpdateProjectAccordingTo ==
  /\ pc = "updateProjectAccordingTo"
  /\ UNCHANGED << versionVars, preferences, cleanVars >>
  /\ LET st == updateProjectTheme([themes |-> themes, colors |-> colors,
                                   drawables |-> drawables, events |-> events],
                                  preferences)
     IN  /\ themes' = st.themes
         /\ colors' = st.colors
         /\ drawables' = st.drawables
         /\ events' = st.events
  /\ themeRuns' = themeRuns + 1
  /\ written' = written \cup { "cdv_strings.xml", "cdv_themes.xml", "cdv_colors.xml",
                               "cdv-gradle-name.gradle", "AndroidManifest.xml" }
  /\ \E java_files \in 0..1 :
       IF java_files = 0
       THEN /\ error' = [name |-> "CordovaError",
                         message |-> << [about |-> "No Java files found that extend CordovaActivity.",
                                         ids |-> <<>>] >>]
            /\ pc' = "failed"
       ELSE /\ error' = error
            /\ pc' = "updateIcons"
  /\ UNCHANGED << dirs, files, iconVars >>

(***************************************************************************)
(* updateIcons: the validation pass.                                       *)
(***************************************************************************)
\* a thrown error: CordovaError or a runtime Error, with the parts of its message
Thrown(name, about, ids) ==
  [name |-> name, message |-> << [about |-> about, ids |-> ids] >>]

\* icon.density ? icon.density : 'size=' + (icon.height || icon.width)
\* (num 0 under "size=" stands for 'size=undefined')
iconIdentifier(icon) ==
  IF icon.density # ""
  THEN [text |-> icon.density, num |-> 0]
  ELSE [text |-> "size=", num |-> IF icon.height # 0 THEN icon.height ELSE icon.width]

\* missingAttributes without its second test: a foreground without a
\* background goes unreported
missingAttributes_mut(icon) ==
  \/ icon.background # NULL /\ icon.foreground = NULL
  \/ icon.background = NULL /\ icon.foreground = NULL /\ icon.src = NULL

\* the condition under which a declaration is pushed to errorMissingAttributes
missingAttributes(icon) ==
  \/ icon.background # NULL /\ icon.foreground = NULL
  \/ icon.background = NULL /\ icon.foreground # NULL
  \/ icon.background = NULL /\ icon.foreground = NULL /\ icon.src = NULL

\* legacyIconNeeded without the test for a vector foreground
legacyIconNeeded_mut(icon) ==
  /\ icon.src = NULL
  /\ startsWith(icon.foreground, AT_COLOR)

\* the condition under which a declaration is pushed to errorLegacyIconNeeded
legacyIconNeeded(icon) ==
  /\ icon.src = NULL
  /\ \/ startsWith(icon.foreground, AT_COLOR)
     \/ extname(basename(icon.foreground)) = DOT_XML

\* validateIcon without the implicit src: the foreground is never taken as src
validateIcon_mut(st, key) ==
  LET icon == st.icons[key]
      st1  == IF missingAttributes(icon)
              THEN [st EXCEPT !.errorMissingAttributes = Append(@, iconIdentifier(icon))]
              ELSE st
  IN  IF icon.foreground = NULL THEN st1
      ELSE IF legacyIconNeeded(icon)
      THEN [st1 EXCEPT !.hasAdaptive = TRUE,
                       !.errorLegacyIconNeeded = Append(@, iconIdentifier(icon))]
      ELSE [st1 EXCEPT !.hasAdaptive = TRUE]

\* the body of icons.forEach((icon, key) => ...)
validateIcon(st, key) ==
  LET icon == st.icons[key]
      st1  == IF missingAttributes(icon)
              THEN [st EXCEPT !.errorMissingAttributes = Append(@, iconIdentifier(icon))]
              ELSE st
  IN  IF icon.foreground = NULL THEN st1
      ELSE IF legacyIconNeeded(icon)
      THEN [st1 EXCEPT !.hasAdaptive = TRUE,
                       !.errorLegacyIconNeeded = Append(@, iconIdentifier(icon))]
      ELSE IF icon.src = NULL
      THEN [st1 EXCEPT !.hasAdaptive = TRUE,
                       !.icons[key].src = icon.foreground]
      ELSE [st1 EXCEPT !.hasAdaptive = TRUE]

RECURSIVE forEachIcon(_, _)
forEachIcon(st, key) ==
  IF key > Len(st.icons) THEN st ELSE forEachIcon(validateIcon(st, key), key + 1)

validation(list) ==
  forEachIcon([icons |-> list, errorMissingAttributes |-> <<>>,
               errorLegacyIconNeeded |-> <<>>, hasAdaptive |-> FALSE], 1)

\* errorMessage with an else between the two classes: the second class is
\* reported only when the first is empty
errorMessage_mut(st) ==
  IF Len(st.errorMissingAttributes) > 0
  THEN << [about |-> "One of the following attributes are set but missing the other for the density type",
           ids |-> st.errorMissingAttributes] >>
  ELSE IF Len(st.errorLegacyIconNeeded) > 0
  THEN << [about |-> "adaptive foreground with a defined color or vector can not be used as a standard fallback icon",
           ids |-> st.errorLegacyIconNeeded] >>
  ELSE <<>>

\* the errorMessage array: one part per non-empty class, joined into one message
errorMessage(st) ==
  (IF Len(st.errorMissingAttributes) > 0
   THEN << [about |-> "One of the following attributes are set but missing the other for the density type",
            ids |-> st.errorMissingAttributes] >>
   ELSE <<>>)
  \o
  (IF Len(st.errorLegacyIconNeeded) > 0
   THEN << [about |-> "adaptive foreground with a defined color or vector can not be used as a standard fallback icon",
            ids |-> st.errorLegacyIconNeeded] >>
   ELSE <<>>)

\* the resource names whose stale copies updateIcons and cleanIcons delete
RESOURCE_NAMES ==
  { IC_LAUNCHER \o DOT_PNG,
    IC_FOREGROUND \o DOT_PNG, IC_BACKGROUND \o DOT_PNG, IC_MONOCHROME \o DOT_PNG,
    IC_FOREGROUND \o DOT_XML, IC_BACKGROUND \o DOT_XML, IC_MONOCHROME \o DOT_XML,
    IC_LAUNCHER \o DOT_XML }

\* mapImageResources that maps each existing resource to itself, not to null
mapImageResources_mut(existing, resourceName) ==
  [p \in { <<drawableFolder, resourceName>> : drawableFolder \in existing } |-> resourceName]

\* mapImageResources(rootDir, subDir, 'mipmap', resourceName): the resource of
\* that name in every existing mipmap-* directory, mapped to null
mapImageResources(existing, resourceName) ==
  [p \in { <<drawableFolder, resourceName>> : drawableFolder \in existing } |-> NULL]

\* Object.assign({}, mapImageResources(...), ...) over the eight resource names
initialResourceMap(existing) ==
  [p \in UNION { DOMAIN mapImageResources(existing, n) : n \in RESOURCE_NAMES } |->
     mapImageResources(existing, p[2])[p]]

\* what getIcons('android') may return: any list of the model, and after a
\* clean the list of the prepare before it, config.xml being the same
DeclaredIcons == IF firstPrepare = NoOutput THEN IconLists ELSE { configIcons }

\* updateIcons up to the call of prepareIcons: read the declarations, return
\* when there are none, validate, throw or build the initial sync map
UpdateIcons ==
  /\ pc = "updateIcons"
  /\ UNCHANGED otherVars
  /\ \E list \in DeclaredIcons :
       /\ configIcons' = list
       /\ IF Len(list) = 0
          THEN /\ events' = emit(events, "verbose", "This app does not have launcher icons defined", 0)
               /\ pc' = "updateFileResources"
               /\ UNCHANGED << error, icons, hasAdaptive, resourceMap, i >>
          ELSE LET st == validation(list) IN
               /\ icons' = st.icons
               /\ hasAdaptive' = st.hasAdaptive
               /\ events' = events
               /\ IF Len(errorMessage(st)) > 0
                  THEN /\ error' = [name |-> "CordovaError", message |-> errorMessage(st)]
                       /\ pc' = "failed"
                       /\ UNCHANGED << resourceMap, i >>
                  ELSE /\ error' = error
                       /\ resourceMap' = initialResourceMap(dirs)
                       /\ i' = 1
                       /\ pc' = "prepareIcons"
  /\ UNCHANGED << written, dirs, files, android_icons, android_keys, default_icon, synced >>

(***************************************************************************)
(* prepareIcons: one iteration of its loop per step.                       *)
(***************************************************************************)
SIZE_TO_DENSITY_MAP ==
  [size \in {36, 48, 72, 96, 144, 192} |->
     CASE size = 36  -> "ldpi"
       [] size = 48  -> "mdpi"
       [] size = 72  -> "hdpi"
       [] size = 96  -> "xhdpi"
       [] size = 144 -> "xxhdpi"
       [] size = 192 -> "xxxhdpi"]

\* icon.density || SIZE_TO_DENSITY_MAP[icon_size]   ("" when undefined)
densityOf(icon, icon_size) ==
  IF icon.density # "" THEN icon.density
  ELSE IF icon_size \in DOMAIN SIZE_TO_DENSITY_MAP THEN SIZE_TO_DENSITY_MAP[icon_size]
  ELSE ""

\* sizeOf that never falls back to the height
sizeOf_mut(icon) == icon.width

\* let size = icon.width; if (!size) size = icon.height
sizeOf(icon) == IF icon.width # 0 THEN icon.width ELSE icon.height

\* keepsPrevious without the test of previous.platform: any filled slot is kept
keepsPrevious_first(all, previous) == previous # 0

\* keepsPrevious that never holds: every declaration overwrites the slot
keepsPrevious_never(all, previous) == FALSE

\* previous && previous.platform: the slot holds a platform-specific icon
\* (previous is an index into icons, 0 when the slot is empty)
keepsPrevious(all, previous) ==
  previous # 0 /\ all[previous].platform # ""

\* parseIcon(icon, icon_size): the android_icons object after the call
parseIcon(all, slots, key, icon_size) ==
  LET density  == densityOf(all[key], icon_size)
      previous == IF density \in DOMAIN slots THEN slots[density] ELSE 0
  IN  IF density = "" THEN slots
      ELSE IF keepsPrevious(all, previous) THEN slots
      ELSE [d \in DOMAIN slots \cup {density} |->
              IF d = density THEN key ELSE slots[d]]

\* the keys of android_icons keep the order of their first insertion
keysAfter(keys, slots) ==
  LET new == DOMAIN slots \ Range(keys)
  IN  IF new = {} THEN keys ELSE Append(keys, CHOOSE d \in new : TRUE)

\* if (!size && !icon.density): the declaration is a default icon candidate
isDefaultCandidate(icon) == sizeOf(icon) = 0 /\ icon.density = ""

\* defaultAfter without the test of default_icon: the last candidate stays
defaultAfter_mut(current, key) == key

\* the default icon after a candidate at index key: the first one stays
defaultAfter(current, key) == IF current # 0 THEN current ELSE key

PrepareIcons ==
  /\ pc = "prepareIcons"
  /\ UNCHANGED otherVars
  /\ i <= Len(icons)
  /\ LET icon == icons[i] IN
       IF isDefaultCandidate(icon)
       THEN /\ default_icon' = defaultAfter(default_icon, i)
            /\ events' = IF default_icon # 0
                         THEN emit(events, "verbose", "Found extra default icon", i)
                         ELSE events
            /\ UNCHANGED << android_icons, android_keys >>
       ELSE /\ android_icons' = parseIcon(icons, android_icons, i, sizeOf(icon))
            /\ android_keys' = keysAfter(android_keys, android_icons')
            /\ UNCHANGED << default_icon, events >>
  /\ i' = i + 1
  /\ pc' = IF i < Len(icons) THEN "prepareIcons"
           ELSE IF hasAdaptive THEN "updateIconResourceForAdaptive"
           ELSE "updateIconResourceForLegacy"
  /\ UNCHANGED << written, error, dirs, files, configIcons, icons, hasAdaptive,
                  resourceMap, synced >>

(***************************************************************************)
(* Target paths and the sync map.                                          *)
(***************************************************************************)
\* resourceMap[target] = source
setPath(map, target, source) ==
  [p \in DOMAIN map \cup {target} |-> IF p = target THEN source ELSE map[p]]

\* deletePath that leaves the entry in the map
deletePath_mut(map, target) == map

\* delete resourceMap[target]
deletePath(map, target) == [p \in DOMAIN map \ {target} |-> map[p]]

\* targetExtension without the special case of 9-Patch files
targetExtension_mut(sourceName) == toLowerCase(extname(sourceName))

\* the extension getImageResourcePath gives the target: '.9.png' for a
\* nine-patch source, else the lower-cased extension of the source
targetExtension(sourceName) ==
  IF endsWith(sourceName, DOT_9_PNG) THEN DOT_9_PNG
  ELSE toLowerCase(extname(sourceName))

\* getImageResourcePath(resourcesDir, 'mipmap', density, name, sourceName)
getImageResourcePath(density, name, sourceName) ==
  << IF density # "" THEN LegacyDir(density) ELSE "mipmap",
     name \o targetExtension(sourceName) >>

\* name.replace(/\.png$/, '.9.png') when the source matches /\.9\.png$/
adaptiveName(name, sourceName) ==
  IF endsWith(sourceName, DOT_9_PNG) /\ endsWith(name, DOT_PNG)
  THEN SubSeq(name, 1, Len(name) - Len(DOT_PNG)) \o DOT_9_PNG
  ELSE name

\* getAdaptiveImageResourcePath(resourcesDir, 'mipmap', density, name, sourceName)
getAdaptiveImageResourcePath(density, name, sourceName) ==
  << IF density # "" THEN AdaptiveDir(density) ELSE "mipmap",
     adaptiveName(name, sourceName) >>

(***************************************************************************)
(* updateIconResourceForAdaptive.                                          *)
(***************************************************************************)
MIPMAP == <<"@","m","i","p","m","a","p","/">>

\* the extension tests of a layer: '.xml' (vector), '.png' (image) or neither
layerExtension(value) ==
  LET e == extname(basename(value))
  IN  IF e = DOT_XML THEN DOT_XML ELSE IF e = DOT_PNG THEN DOT_PNG ELSE NULL

\* the three-way branch on a background or foreground inside the loop: a
\* color is left alone, a vector or an image is mapped under the layer's name
mapLayer(map, density, value, stem) ==
  IF startsWith(value, AT_COLOR) THEN map
  ELSE IF layerExtension(value) = NULL THEN map
  ELSE setPath(map,
               getAdaptiveImageResourcePath(density, stem \o layerExtension(value),
                                            basename(value)),
               value)

\* the two-way branch on the monochrome layer: no test for a color
mapMonochrome(map, density, value) ==
  IF layerExtension(value) = NULL THEN map
  ELSE setPath(map,
               getAdaptiveImageResourcePath(density, IC_MONOCHROME \o layerExtension(value),
                                            basename(value)),
               value)

\* backgroundVal / foregroundVal: the color itself, or the @mipmap reference
drawableOf(value, stem) ==
  IF startsWith(value, AT_COLOR) THEN value ELSE MIPMAP \o stem

\* the adaptive-icon document written for a density
icLauncherTemplate(background, foreground, hasMonochromeIcon) ==
  [source |-> NULL,
   xml |-> << drawableOf(background, IC_BACKGROUND),
              drawableOf(foreground, IC_FOREGROUND),
              IF hasMonochromeIcon THEN MIPMAP \o IC_MONOCHROME ELSE NULL >>]

launcherXmlPath(density) == << AdaptiveDir(density), IC_LAUNCHER \o DOT_XML >>

\* fs.writeFileSync does not create the directory of the file
canWrite(existing, path) == path[1] \in existing

\* the body of `for (const density in android_icons)`; st carries the sync
\* map, the files, the function-scoped background/foreground/monochrome, the
\* diagnostics and the error thrown, if any
adaptiveIteration(all, slots, existing, st, density) ==
  LET icon == all[slots[density]]
      hasAdaptiveIcons == icon.background # NULL /\ icon.foreground # NULL
      hasMonochromeIcon == icon.monochrome # NULL /\ hasAdaptiveIcons
      seen == [st EXCEPT
                 !.background = icon.background,
                 !.foreground = icon.foreground,
                 !.monochrome = IF hasMonochromeIcon THEN icon.monochrome ELSE NULL,
                 !.events = IF icon.monochrome # NULL /\ ~hasAdaptiveIcons
                            THEN emit(@, "warn", "Monochrome icon found but without adaptive properties.", slots[density])
                            ELSE @]
      map1 == mapLayer(st.resourceMap, density, icon.background, IC_BACKGROUND)
      map2 == mapLayer(map1, density, icon.foreground, IC_FOREGROUND)
      map3 == IF hasMonochromeIcon THEN mapMonochrome(map2, density, icon.monochrome) ELSE map2
      map4 == deletePath(map3, launcherXmlPath(density))
  IN  IF ~hasAdaptiveIcons THEN seen
      ELSE IF ~canWrite(existing, launcherXmlPath(density))
      THEN [seen EXCEPT !.resourceMap = map4,
                        !.thrown = Thrown("Error", "ENOENT: no such file or directory", <<>>)]
      ELSE [seen EXCEPT !.resourceMap = map4,
                        !.files = setPath(@, launcherXmlPath(density),
                                          icLauncherTemplate(icon.background, icon.foreground,
                                                             hasMonochromeIcon))]

RECURSIVE adaptiveLoop(_, _, _, _, _, _)
adaptiveLoop(all, slots, keys, existing, st, k) ==
  IF k > Len(keys) \/ st.thrown # NoError THEN st
  ELSE adaptiveLoop(all, slots, keys, existing,
                    adaptiveIteration(all, slots, existing, st, keys[k]), k + 1)

TypeError == Thrown("TypeError", "Cannot read properties of undefined", <<>>)

\* one layer of the default block: the branch is chosen by `classifier` (the
\* function-scoped variable the loop left behind), the path and the source
\* come from the default icon's value; startsWith of an undefined classifier
\* and path.basename of an undefined value throw a TypeError
defaultLayer(st, classifier, value, stem, testsColor) ==
  IF st.thrown # NoError THEN st
  ELSE IF testsColor /\ classifier = NULL THEN [st EXCEPT !.thrown = TypeError]
  ELSE IF testsColor /\ startsWith(classifier, AT_COLOR) THEN st
  ELSE IF layerExtension(classifier) = NULL THEN st
  ELSE IF value = NULL THEN [st EXCEPT !.thrown = TypeError]
  ELSE [st EXCEPT !.resourceMap =
          setPath(@, getAdaptiveImageResourcePath("mdpi", stem \o layerExtension(classifier),
                                                  basename(value)),
                  value)]

\* adaptiveDefault that chooses each branch from the default icon's own value
adaptiveDefault_mut(all, slots, default, st) ==
  IF st.thrown # NoError \/ default = 0 \/ "mdpi" \in DOMAIN slots THEN st
  ELSE LET b == defaultLayer(st, all[default].background, all[default].background, IC_BACKGROUND, TRUE)
           f == defaultLayer(b, all[default].foreground, all[default].foreground, IC_FOREGROUND, TRUE)
       IN  IF all[default].monochrome = NULL THEN f
           ELSE defaultLayer(f, all[default].monochrome, all[default].monochrome, IC_MONOCHROME, FALSE)

\* if (default_icon && !android_icons.mdpi) { ... }
adaptiveDefault(all, slots, default, st) ==
  IF st.thrown # NoError \/ default = 0 \/ "mdpi" \in DOMAIN slots THEN st
  ELSE LET b == defaultLayer(st, st.background, all[default].background, IC_BACKGROUND, TRUE)
           f == defaultLayer(b, st.foreground, all[default].foreground, IC_FOREGROUND, TRUE)
       IN  IF st.monochrome = NULL THEN f
           ELSE defaultLayer(f, st.monochrome, all[default].monochrome, IC_MONOCHROME, FALSE)

updateIconResourceForAdaptive(all, slots, keys, default, existing, map, fs, log) ==
  adaptiveDefault(all, slots, default,
    adaptiveLoop(all, slots, keys, existing,
                 [resourceMap |-> map, files |-> fs, background |-> NULL,
                  foreground |-> NULL, monochrome |-> NULL, events |-> log,
                  thrown |-> NoError], 1))

UpdateIconResourceForAdaptive ==
  /\ pc = "updateIconResourceForAdaptive"
  /\ UNCHANGED otherVars
  /\ LET st == updateIconResourceForAdaptive(icons, android_icons, android_keys,
                                             default_icon, dirs, resourceMap, files, events)
     IN  /\ resourceMap' = st.resourceMap
         /\ files' = st.files
         /\ events' = st.events
         /\ error' = st.thrown
         /\ pc' = IF st.thrown # NoError THEN "failed" ELSE "updateIconResourceForLegacy"
  /\ UNCHANGED << written, dirs, configIcons, icons, hasAdaptive, i, android_icons,
                  android_keys, default_icon, synced >>

(***************************************************************************)
(* updateIconResourceForLegacy and FileUpdater.updatePaths.                *)
(***************************************************************************)
\* one legacy entry: resourceMap[getImageResourcePath(.., basename(src))] = src;
\* path.basename of an undefined src throws a TypeError
legacyEntry(st, density, src) ==
  IF st.thrown # NoError THEN st
  ELSE IF src = NULL THEN [st EXCEPT !.thrown = TypeError]
  ELSE [st EXCEPT !.resourceMap =
          setPath(@, getImageResourcePath(density, IC_LAUNCHER, basename(src)), src)]

RECURSIVE legacyLoop(_, _, _, _, _)
legacyLoop(all, slots, keys, st, k) ==
  IF k > Len(keys) THEN st
  ELSE legacyLoop(all, slots, keys,
                  legacyEntry(st, keys[k], all[slots[keys[k]]].src), k + 1)

\* usesDefaultForMdpi without the test of android_icons.mdpi
usesDefaultForMdpi_mut(slots, default) == default # 0

\* the default icon stands in for mdpi when no mdpi icon was resolved
usesDefaultForMdpi(slots, default) == default # 0 /\ "mdpi" \notin DOMAIN slots

updateIconResourceForLegacy(all, slots, keys, default, map) ==
  LET st == legacyLoop(all, slots, keys, [resourceMap |-> map, thrown |-> NoError], 1)
  IN  IF usesDefaultForMdpi(slots, default)
      THEN legacyEntry(st, "mdpi", all[default].src)
      ELSE st

\* the order of Object.keys(pathMap).sort()
DirRank(dir) == CHOOSE k \in 1..Len(SORTED_DIRS) : SORTED_DIRS[k] = dir

pathLess(p, q) ==
  IF p[1] # q[1] THEN DirRank(p[1]) < DirRank(q[1]) ELSE StrLess(p[2], q[2])

\* fs.existsSync(sourceFullPath): the files a declaration names exist in the
\* project; a color reference names no file
sourceExists(source) == ~startsWith(source, AT_COLOR)

\* the targets updatePath throws on: their source is given and does not exist
missingSources(map) ==
  { p \in DOMAIN map : map[p] # NULL /\ ~sourceExists(map[p]) }

\* the targets updatePath is applied to: all of them, or, when a source is
\* missing, those that sort before the first target whose source is missing
updatedPaths(map) ==
  LET missing == missingSources(map)
      first   == CHOOSE p \in missing : \A q \in missing \ {p} : pathLess(p, q)
  IN  IF missing = {} THEN DOMAIN map
      ELSE { p \in DOMAIN map : pathLess(p, first) }

\* FileUpdater.updatePaths(pathMap, { rootDir }, logFileOp): over the sorted
\* targets, a source is copied over its target (creating the directory), a
\* null source deletes the target, a missing source throws and ends the loop.
\* The targets are distinct, so the result is computed per target.
updatePaths(existing, fs, map) ==
  LET reached == updatedPaths(map)
      copied  == { p \in reached : map[p] # NULL }
      deleted == { p \in reached : map[p] = NULL }
  IN  [dirs   |-> existing \cup { p[1] : p \in copied },
       files  |-> [p \in (DOMAIN fs \ deleted) \cup copied |->
                     IF p \in copied THEN [source |-> map[p], xml |-> <<>>] ELSE fs[p]],
       thrown |-> IF missingSources(map) = {} THEN NoError
                  ELSE Thrown("Error", "sourcePath does not exist", <<>>)]

\* the legacy pass and the synchronisation that ends updateIcons
UpdateIconResourceForLegacy ==
  /\ pc = "updateIconResourceForLegacy"
  /\ UNCHANGED otherVars
  /\ LET st == updateIconResourceForLegacy(icons, android_icons, android_keys,
                                           default_icon, resourceMap)
     IN  /\ resourceMap' = st.resourceMap
         /\ IF st.thrown # NoError
            THEN /\ error' = st.thrown
                 /\ pc' = "failed"
                 /\ UNCHANGED << events, dirs, files, synced >>
            ELSE LET fs == updatePaths(dirs, files, st.resourceMap) IN
                 /\ events' = emit(events, "verbose", "Updating icons", 0)
                 /\ synced' = TRUE
                 /\ dirs' = fs.dirs
                 /\ files' = fs.files
                 /\ error' = fs.thrown
                 /\ pc' = IF fs.thrown # NoError THEN "failed" ELSE "updateFileResources"
  /\ UNCHANGED << written, configIcons, icons, hasAdaptive, i, android_icons,
                  android_keys, default_icon >>

(***************************************************************************)
(* prepare(): the steps after the icons.                                   *)
(***************************************************************************)
\* updateFileResources(cordovaProject, ...): the <resource-file> elements
UpdateFileResources ==
  /\ pc = "updateFileResources"
  /\ UNCHANGED otherVars
  /\ \E declared \in BOOLEAN :
       IF declared
       THEN /\ written' = written \cup {"resource-files"}
            /\ events' = emit(events, "verbose", "Updating resource files", 0)
       ELSE /\ written' = written
            /\ events' = emit(events, "verbose", "This app does not have additional resource files defined", 0)
  /\ pc' = "prepared"
  /\ UNCHANGED << error, dirs, files, iconVars >>

\* a last step that also follows a rejected step
Prepared_mut ==
  /\ pc \in { "prepared", "failed" }
  /\ UNCHANGED otherVars
  /\ events' = emit(events, "verbose", "Prepared android project successfully", 0)
  /\ pc' = "done"
  /\ UNCHANGED << written, error, dirs, files, iconVars >>

\* the last .then of prepare()
Prepared ==
  /\ pc = "prepared"
  /\ UNCHANGED otherVars
  /\ events' = emit(events, "verbose", "Prepared android project successfully", 0)
  /\ pc' = "done"
  /\ UNCHANGED << written, error, dirs, files, iconVars >>

Next ==
  \/ UpdateConfigFilesFrom
  \/ UpdateUserProjectGradleConfig
  \/ UpdateUserProjectGradlePropertiesConfig
  \/ UpdateWww
  \/ WarnForDeprecatedSplashScreen
  \/ UpdateProjectAccordingTo
  \/ UpdateIcons
  \/ PrepareIcons
  \/ UpdateIconResourceForAdaptive
  \/ UpdateIconResourceForLegacy
  \/ UpdateFileResources
  \/ Prepared

Spec == Init /\ [][Next]_vars

(***************************************************************************)
(* default_versionCode(version), applied to the versions of the model.     *)
(***************************************************************************)
\* s.split(c)
RECURSIVE split(_, _)
split(s, c) ==
  IF IndexOf(s, c) = 0 THEN << s >>
  ELSE << SubSeq(s, 1, IndexOf(s, c) - 1) >>
         \o split(SubSeq(s, IndexOf(s, c) + 1, Len(s)), c)

DIGITS == <<"0","1","2","3","4","5","6","7","8","9">>

DigitValue(c) == (CHOOSE k \in 1..Len(DIGITS) : DIGITS[k] = c) - 1

RECURSIVE decimal(_)
decimal(s) ==
  IF Len(s) = 0 THEN 0
  ELSE decimal(SubSeq(s, 1, Len(s) - 1)) * 10 + DigitValue(s[Len(s)])

\* the unary plus on a component that holds digits and letters only: the
\* empty string is 0, a string of digits is its decimal value, a string with
\* a letter is NaN
toNumber(s) ==
  IF \A k \in 1..Len(s) : s[k] \in Range(DIGITS)
  THEN [NaN |-> FALSE, value |-> decimal(s)]
  ELSE [NaN |-> TRUE, value |-> 0]

\* nums without the cut at the first '-': version.split('.')
versionNums_mut(v) == split(v, ".")

\* const nums = version.split('-')[0].split('.')
versionNums(v) == split(split(v, "-")[1], ".")

\* if (+nums[k]) versionCode += +nums[k] * weight
addComponent(code, nums, k, weight) ==
  LET n == IF k <= Len(nums) THEN toNumber(nums[k]) ELSE [NaN |-> TRUE, value |-> 0]
  IN  IF ~n.NaN /\ n.value # 0 THEN code + n.value * weight ELSE code

default_versionCode(v) ==
  LET nums == versionNums(v)
  IN  addComponent(addComponent(addComponent(0, nums, 1, 10000), nums, 2, 100), nums, 3, 1)

\* a call of default_versionCode(platformConfig.version())
DefaultVersionCodeInit ==
  /\ pc = "default_versionCode"
  /\ dirs = DirsOf({"mdpi"})
  /\ written = {} /\ events = <<>> /\ error = NoError /\ files = Empty
  /\ configIcons = <<>> /\ icons = <<>> /\ hasAdaptive = FALSE
  /\ resourceMap = Empty /\ i = 0 /\ android_icons = Empty
  /\ android_keys = <<>> /\ default_icon = 0 /\ synced = FALSE
  /\ versionParts \in VersionInputs
  /\ version = versionOf(versionParts)
  /\ versionCode = 0
  /\ ThemeInit
  /\ CleanInit

DefaultVersionCode ==
  /\ pc = "default_versionCode"
  /\ versionCode' = default_versionCode(version)
  /\ events' = emit(events, "verbose", "android-versionCode not found in config.xml. Generating a code based on version in config.xml", versionCode')
  /\ pc' = "versionCode"
  /\ UNCHANGED << written, error, dirs, files, iconVars, version, versionParts, themeVars, cleanVars >>

VersionNext == DefaultVersionCode

VersionSpec == DefaultVersionCodeInit /\ [][VersionNext]_vars

(***************************************************************************)
(* updateProjectTheme on its own, over the preferences of config.xml.      *)
(***************************************************************************)
\* a platform project some prepare may have left: the optional item and node
\* present or not
ThemeSpecInit ==
  /\ pc = "updateProjectTheme"
  /\ dirs = DirsOf({"mdpi"})
  /\ written = {} /\ events = <<>> /\ error = NoError /\ files = Empty
  /\ configIcons = <<>> /\ icons = <<>> /\ hasAdaptive = FALSE
  /\ resourceMap = Empty /\ i = 0 /\ android_icons = Empty
  /\ android_keys = <<>> /\ default_icon = 0 /\ synced = FALSE
  /\ VersionInit
  /\ preferences = NoPreferences
  /\ themes \in InitialThemes
  /\ colors \in InitialColors
  /\ drawables = TemplateDrawables
  /\ themeRuns = 0
  /\ CleanInit

\* one prepare of the project up to the end of updateProjectTheme, with the
\* preferences config.xml holds at that time; events are those of this call
UpdateProjectTheme ==
  /\ pc = "updateProjectTheme"
  /\ themeRuns < MaxRuns
  /\ \E prefs \in PreferenceInputs :
       LET st == updateProjectTheme([themes |-> themes, colors |-> colors,
                                     drawables |-> drawables, events |-> <<>>], prefs)
       IN  /\ preferences' = prefs
           /\ themes' = st.themes
           /\ colors' = st.colors
           /\ drawables' = st.drawables
           /\ events' = st.events
  /\ themeRuns' = themeRuns + 1
  /\ written' = written \cup {"cdv_themes.xml", "cdv_colors.xml"}
  /\ UNCHANGED << pc, error, dirs, files, iconVars, versionVars, cleanVars >>

ThemeNext == UpdateProjectTheme

ThemeSpec == ThemeSpecInit /\ [][ThemeNext]_vars

(***************************************************************************)
(* clean(), and prepare() again after it with the same config.xml.         *)
(***************************************************************************)
\* clean() that heeds only the missing config.xml, not the noPrepare option
skipsClean_mut(options, configXml) == ~configXml

\* (options && options.noPrepare) || !fs.existsSync(this.locations.configXml) || ...
skipsClean(options, configXml) == options.noPrepare \/ ~configXml \/ ~configXml

\* cleanIcons that removes the mipmap directories with all they hold
cleanIcons_mut(declared, existing, fs, log) ==
  [resourceMap |-> initialResourceMap(existing), dirs |-> {}, files |-> Empty,
   events |-> emit(log, "verbose", "Cleaning icons", 0)]

\* cleanIcons(projectRoot, projectConfig, platformResourcesDir)
cleanIcons(declared, existing, fs, log) ==
  IF Len(declared) = 0
  THEN [resourceMap |-> Empty, dirs |-> existing, files |-> fs,
        events |-> emit(log, "verbose", "This app does not have launcher icons defined", 0)]
  ELSE LET map == initialResourceMap(existing)
           out == updatePaths(existing, fs, map)
       IN  [resourceMap |-> map, dirs |-> out.dirs, files |-> out.files,
            events |-> emit(log, "verbose", "Cleaning icons", 0)]

\* what an earlier prepare of another config.xml has left below res: a layer
\* under a recognized name, and a nine-patch icon
StaleFiles ==
  [p \in { << "mipmap-mdpi-v26", IC_FOREGROUND \o DOT_XML >>,
           << "mipmap-mdpi", IC_LAUNCHER \o DOT_9_PNG >> } |->
     [source |-> IF p[1] = "mipmap-mdpi" THEN SRC_B_9_PNG ELSE FG_XML, xml |-> <<>>]]

\* the preferences of a config.xml that is prepared, cleaned and prepared:
\* none, or those of the theme, an animated icon and a branding image
CleanPreferences ==
  { NoPreferences,
    Preferences(TEXT.true, <<"o","'","c">>, <<"#","1","1","1">>, NULL,
                <<"r","e","s","/","s",".","p","n","g">>, <<"r","e","s","/","S",".","P","N","G">>) }

\* a platform project with files of an earlier prepare, before prepare() runs
CleanSpecInit ==
  /\ pc = "updateConfigFilesFrom"
  /\ written = {} /\ events = <<>> /\ error = NoError
  /\ dirs = DirsOf({"mdpi", "hdpi", "xxxhdpi"})
  /\ files = StaleFiles
  /\ configIcons = <<>> /\ icons = <<>> /\ hasAdaptive = FALSE
  /\ resourceMap = Empty /\ i = 0 /\ android_icons = Empty
  /\ android_keys = <<>> /\ default_icon = 0 /\ synced = FALSE
  /\ VersionInit
  /\ preferences \in CleanPreferences
  /\ themes = TemplateThemes
  /\ colors = TemplateColors
  /\ drawables = TemplateDrawables
  /\ themeRuns = 0
  /\ CleanInit

\* clean(options) after the first prepare: cleanWww, cleanIcons,
\* cleanFileResources, unless the option or a missing config.xml makes it
\* return at once; events are those of this call
Clean ==
  /\ pc = "done"
  /\ firstPrepare = NoOutput
  /\ \E noPrepare \in BOOLEAN, configXml \in BOOLEAN :
       /\ cleanCall' = [noPrepare |-> noPrepare, configXml |-> configXml]
       /\ IF skipsClean(cleanCall', configXml)
          THEN /\ events' = <<>>
               /\ UNCHANGED << written, dirs, files, resourceMap >>
          ELSE LET st == cleanIcons(configIcons, dirs, files,
                                    emit(<<>>, "verbose", "Cleaning www", 0))
               IN  /\ written' = written \ { "www", "resource-files" }
                   /\ resourceMap' = st.resourceMap
                   /\ dirs' = st.dirs
                   /\ files' = st.files
                   /\ events' = IF "resource-files" \in written
                                THEN emit(st.events, "verbose", "Cleaning resource files", 0)
                                ELSE st.events
  /\ firstPrepare' = Output(files, dirs, written, themes, colors, drawables)
  /\ pc' = "cleaned"
  /\ UNCHANGED << error, configIcons, icons, hasAdaptive, i, android_icons,
                  android_keys, default_icon, synced, versionVars, themeVars >>

\* prepare(cordovaProject, options) is called again: its locals are fresh
Prepare ==
  /\ pc = "cleaned"
  /\ pc' = "updateConfigFilesFrom"
  /\ events' = <<>> /\ error' = NoError
  /\ icons' = <<>> /\ hasAdaptive' = FALSE /\ resourceMap' = Empty /\ i' = 0
  /\ android_icons' = Empty /\ android_keys' = <<>> /\ default_icon' = 0
  /\ synced' = FALSE
  /\ UNCHANGED << written, dirs, files, configIcons, otherVars >>

\* the config.xml files of this specification
CleanConfig == Len(configIcons') <= MaxCleanIcons

\* after a clean, the project is the one of the prepare before it: the same
\* activity, the same resource files
SameProject ==
  firstPrepare # NoOutput =>
    /\ pc = "updateProjectAccordingTo" => pc' # "failed"
    /\ pc = "updateFileResources" =>
         ("resource-files" \in written') = ("resource-files" \in firstPrepare.written)

CleanNext ==
  \/ Next /\ CleanConfig /\ SameProject
  \/ Clean
  \/ Prepare

CleanSpec == CleanSpecInit /\ [][CleanNext]_vars

(***************************************************************************)
(* prepare() with one config.xml and then with another, and prepare() with *)
(* the second config.xml on a project of its own.                          *)
(***************************************************************************)
\* a project just created, with the mipmap directories of the template
RerunInit ==
  /\ Init
  /\ dirs = DirsOf({"mdpi", "hdpi", "xxxhdpi"})

\* prepare(cordovaProject, options) is called on the project a first prepare
\* has finished with; its locals are fresh, config.xml is read anew
PrepareNext ==
  /\ pc = "done"
  /\ themeRuns = 1
  /\ pc' = "updateConfigFilesFrom"
  /\ events' = <<>> /\ error' = NoError
  /\ icons' = <<>> /\ hasAdaptive' = FALSE /\ resourceMap' = Empty /\ i' = 0
  /\ android_icons' = Empty /\ android_keys' = <<>> /\ default_icon' = 0
  /\ synced' = FALSE
  /\ UNCHANGED << written, dirs, files, configIcons, otherVars >>

\* the last config.xml is prepared on a project just created: nothing is
\* written, res holds the mipmap directories of the template; what the two
\* prepares have left is kept for the comparison
FreshProject ==
  /\ pc = "done"
  /\ themeRuns = 2
  /\ firstPrepare = NoOutput
  /\ firstPrepare' = Output(files, dirs, written, themes, colors, drawables)
  /\ pc' = "updateConfigFilesFrom"
  /\ written' = {} /\ files' = Empty
  /\ dirs' = DirsOf({"mdpi", "hdpi", "xxxhdpi"})
  /\ themes' = TemplateThemes /\ colors' = TemplateColors
  /\ drawables' = TemplateDrawables
  /\ events' = <<>> /\ error' = NoError
  /\ icons' = <<>> /\ hasAdaptive' = FALSE /\ resourceMap' = Empty /\ i' = 0
  /\ android_icons' = Empty /\ android_keys' = <<>> /\ default_icon' = 0
  /\ synced' = FALSE
  /\ UNCHANGED << configIcons, versionVars, preferences, themeRuns, cleanCall >>

RerunNext ==
  \/ Next /\ CleanConfig
  \/ PrepareNext
  \/ FreshProject

RerunSpec == RerunInit /\ [][RerunNext]_vars

(***************************************************************************)
(* Properties.  What a claim expects is written out here from the claim,   *)
(* apart from the operators of the model.                                  *)
(***************************************************************************)
ABOUT_MISSING ==
  "One of the following attributes are set but missing the other for the density type"
ABOUT_LEGACY ==
  "adaptive foreground with a defined color or vector can not be used as a standard fallback icon"

\* updateIcons has read the declarations (it ran at least its validation pass)
Validated == configIcons # <<>>

\* the prepare was rejected by the validation of the icon declarations
ValidationFailed ==
  /\ pc = "failed"
  /\ error.name = "CordovaError"
  /\ \E k \in 1..Len(error.message) : error.message[k].about \in {ABOUT_MISSING, ABOUT_LEGACY}

\* the identifiers a message lists for a class (empty when it has no such part)
ListedFor(about) ==
  IF \E k \in 1..Len(error.message) : error.message[k].about = about
  THEN error.message[CHOOSE k \in 1..Len(error.message) : error.message[k].about = about].ids
  ELSE <<>>

\* the name a declaration goes by in a diagnostic
NamedAs(icon) ==
  IF icon.density # "" THEN [text |-> icon.density, num |-> 0]
  ELSE IF icon.height # 0 THEN [text |-> "size=", num |-> icon.height]
  ELSE [text |-> "size=", num |-> icon.width]

\* the missing-pair class of a declaration
InMissingPair(icon) ==
  LET b == icon.background # NULL
      f == icon.foreground # NULL
  IN  (b /\ ~f) \/ (f /\ ~b) \/ (~b /\ ~f /\ icon.src = NULL)

\* the legacy-needed class of a declaration
InLegacyNeeded(icon) ==
  /\ icon.foreground # NULL
  /\ icon.src = NULL
  /\ \/ startsWith(icon.foreground, AT_COLOR)
     \/ endsWith(icon.foreground, DOT_XML)

\* the names of the declarations of a class, in declaration order
RECURSIVE NamesOfMissing(_)
NamesOfMissing(list) ==
  IF list = <<>> THEN <<>>
  ELSE (IF InMissingPair(Head(list)) THEN << NamedAs(Head(list)) >> ELSE <<>>)
       \o NamesOfMissing(Tail(list))

RECURSIVE NamesOfLegacy(_)
NamesOfLegacy(list) ==
  IF list = <<>> THEN <<>>
  ELSE (IF InLegacyNeeded(Head(list)) THEN << NamedAs(Head(list)) >> ELSE <<>>)
       \o NamesOfLegacy(Tail(list))

\* C1: whenever a declaration has exactly one of background/foreground, or
\* none of background, foreground and src, updateIcons fails with a
\* CordovaError whose missing-attribute part names that declaration by its
\* density, or by size=<height or width> when it has no density.
C1_MissingPairIsNamed ==
  \A k \in 1..Len(configIcons) :
    InMissingPair(configIcons[k]) =>
      /\ pc = "failed"
      /\ error.name = "CordovaError"
      /\ NamedAs(configIcons[k]) \in Range(ListedFor(ABOUT_MISSING))

C1_Witness ==
  /\ pc = "failed"
  /\ \E k \in 1..Len(configIcons) :
       /\ InMissingPair(configIcons[k])
       /\ configIcons[k].density = ""
       /\ configIcons[k].height = 60
       /\ [text |-> "size=", num |-> 60] \in Range(ListedFor(ABOUT_MISSING))
  /\ \E k \in 1..Len(configIcons) :
       /\ configIcons[k].background # NULL
       /\ configIcons[k].foreground = NULL
       /\ configIcons[k].density = "mdpi"

\* C2: a declaration with a color or vector foreground and no src makes
\* updateIcons fail with the legacy-needed part naming it, and the part lists
\* nothing else: a declaration that has a src adds no name to it.
C2_LegacyNeededIsNamed ==
  /\ \A k \in 1..Len(configIcons) :
       InLegacyNeeded(configIcons[k]) =>
         /\ pc = "failed"
         /\ error.name = "CordovaError"
         /\ NamedAs(configIcons[k]) \in Range(ListedFor(ABOUT_LEGACY))
  /\ Validated =>
       Len(ListedFor(ABOUT_LEGACY)) =
         Cardinality({ k \in 1..Len(configIcons) : InLegacyNeeded(configIcons[k]) })

C2_Witness ==
  /\ ValidationFailed
  /\ Len(ListedFor(ABOUT_LEGACY)) = 1
  /\ \E k \in 1..Len(configIcons) :
       /\ configIcons[k].foreground = COLOR_B
       /\ configIcons[k].src = NULL
  /\ \E k \in 1..Len(configIcons) :
       /\ configIcons[k].foreground = FG_XML
       /\ configIcons[k].src # NULL

\* a foreground that is an image file: neither a color nor a vector
RasterForeground(icon) ==
  /\ icon.foreground # NULL
  /\ ~startsWith(icon.foreground, AT_COLOR)
  /\ ~endsWith(icon.foreground, DOT_XML)

\* a file name of the flat launcher icon: ic_launcher and an extension
IsFlatLauncher(name) ==
  /\ startsWith(name, IC_LAUNCHER)
  /\ Len(name) > Len(IC_LAUNCHER) => name[Len(IC_LAUNCHER) + 1] = "."

\* C3: a declaration with a raster foreground and no src has src = foreground
\* after the validation pass, a declaration with a src keeps it, and the
\* legacy pass maps the foreground of such a declaration as the flat
\* ic_launcher source of the density it was resolved for.
C3_ImplicitSrc ==
  /\ Validated => Len(icons) = Len(configIcons)
  /\ \A k \in 1..Len(configIcons) :
       /\ (configIcons[k].src = NULL /\ RasterForeground(configIcons[k]))
            => icons[k].src = configIcons[k].foreground
       /\ configIcons[k].src # NULL => icons[k].src = configIcons[k].src
  /\ synced =>
       \A d \in DOMAIN android_icons :
         configIcons[android_icons[d]].src = NULL =>
           \E p \in DOMAIN resourceMap :
             /\ p[1] = "mipmap-" \o d
             /\ IsFlatLauncher(p[2])
             /\ resourceMap[p] = configIcons[android_icons[d]].foreground

C3_Witness ==
  /\ synced
  /\ \E d \in DOMAIN android_icons :
       /\ configIcons[android_icons[d]].src = NULL
       /\ icons[android_icons[d]].src = FG_PNG
  /\ \E k \in 1..Len(configIcons) :
       /\ configIcons[k].foreground # NULL
       /\ configIcons[k].src = SRC_C_JPG
       /\ icons[k].src = SRC_C_JPG

\* C4: when a declaration is in the missing-pair or the legacy-needed class,
\* updateIcons raises one CordovaError whose message has one part per
\* non-empty class, listing every declaration of the class in declaration
\* order, and nothing is resolved: prepareIcons has not run, no adaptive
\* descriptor is written and FileUpdater.updatePaths is not called.
C4_AggregatedFailure ==
  (\E k \in 1..Len(configIcons) :
      InMissingPair(configIcons[k]) \/ InLegacyNeeded(configIcons[k]))
  =>
    /\ pc = "failed"
    /\ error.name = "CordovaError"
    /\ ListedFor(ABOUT_MISSING) = NamesOfMissing(configIcons)
    /\ ListedFor(ABOUT_LEGACY) = NamesOfLegacy(configIcons)
    /\ Len(error.message) =
         (IF NamesOfMissing(configIcons) # <<>> THEN 1 ELSE 0)
           + (IF NamesOfLegacy(configIcons) # <<>> THEN 1 ELSE 0)
    /\ i = 0
    /\ DOMAIN android_icons = {}
    /\ default_icon = 0
    /\ DOMAIN files = {}
    /\ DOMAIN resourceMap = {}
    /\ ~synced

C4_Witness ==
  /\ ValidationFailed
  /\ Len(error.message) = 2
  /\ Len(ListedFor(ABOUT_MISSING)) = 2
  /\ ListedFor(ABOUT_MISSING)[1] # ListedFor(ABOUT_MISSING)[2]

\* what the steps of prepare before updateIcons write
EarlierArtifacts ==
  { "config.xml", "cdv-gradle-config.json", "gradle.properties", "www",
    "cdv_strings.xml", "cdv_themes.xml", "cdv_colors.xml",
    "cdv-gradle-name.gradle", "AndroidManifest.xml" }

\* C5 as claimed: when the icon declarations fail validation, no build
\* artifact has been written.
C5_NothingWritten ==
  ValidationFailed => (written = {} /\ DOMAIN files = {})

\* C5 as amended: when the icon declarations fail validation, no launcher icon
\* file has been written or synchronised and the resource files are not
\* updated, while the artifacts of the earlier steps of prepare are written.
C5_NoIconWritten ==
  ValidationFailed =>
    /\ DOMAIN files = {}
    /\ ~synced
    /\ dirs \in InitialDirs
    /\ "resource-files" \notin written
    /\ written = EarlierArtifacts

C5_Witness ==
  /\ ValidationFailed
  /\ "www" \in written
  /\ "AndroidManifest.xml" \in written
  /\ DOMAIN files = {}

\* the declarations prepareIcons has looked at so far are 1..Processed
Processed == IF i = 0 THEN 0 ELSE i - 1

\* a declaration with neither density nor width nor height
Sizeless(icon) == icon.density = "" /\ icon.width = 0 /\ icon.height = 0

SizelessSeen == { k \in 1..Processed : Sizeless(configIcons[k]) }

ExtraDefaultEvents ==
  { k \in 1..Len(events) : events[k].message = "Found extra default icon" }

Least(S) == CHOOSE k \in S : \A j \in S : k <= j
Greatest(S) == CHOOSE k \in S : \A j \in S : j <= k

\* C6: of the declarations with neither density nor size that prepareIcons
\* has looked at, the first is default_icon at every moment (it is never
\* replaced by a later one), and every later one has produced exactly one
\* 'Found extra default icon' diagnostic.
C6_FirstDefaultKept ==
  /\ SizelessSeen = {} => default_icon = 0 /\ ExtraDefaultEvents = {}
  /\ SizelessSeen # {} =>
       /\ default_icon = Least(SizelessSeen)
       /\ Cardinality(ExtraDefaultEvents) = Cardinality(SizelessSeen) - 1
       /\ \A k \in SizelessSeen \ {Least(SizelessSeen)} :
            \E e \in ExtraDefaultEvents : events[e].about = k

C6_Witness ==
  /\ Cardinality(SizelessSeen) >= 2
  /\ default_icon = 1
  /\ configIcons[2] # configIcons[1]
  /\ Sizeless(configIcons[2])
  /\ Cardinality(ExtraDefaultEvents) = 1

\* the density a declaration resolves to: its density, else the one of its
\* width (or of its height when it has no width), "" when there is none
DensityOfSize(size) ==
  CASE size = 36  -> "ldpi"
    [] size = 48  -> "mdpi"
    [] size = 72  -> "hdpi"
    [] size = 96  -> "xhdpi"
    [] size = 144 -> "xxhdpi"
    [] size = 192 -> "xxxhdpi"
    [] OTHER      -> ""

ResolvesTo(icon) ==
  IF icon.density # "" THEN icon.density
  ELSE IF icon.width # 0 THEN DensityOfSize(icon.width)
  ELSE DensityOfSize(icon.height)

\* the declarations looked at so far that resolve to density d
SeenFor(d) ==
  { k \in 1..Processed : ~Sizeless(configIcons[k]) /\ ResolvesTo(configIcons[k]) = d }

PlatformSeenFor(d) == { k \in SeenFor(d) : configIcons[k].platform # "" }

\* C7 as claimed: the first declaration in descriptor order that resolves to
\* a density is the one kept in android_icons.
C7_FirstDeclarationKept ==
  \A d \in DOMAIN android_icons : android_icons[d] = Least(SeenFor(d))

\* C7 as amended: the declaration kept for a density is the first
\* platform-specific declaration that resolves to it, or, when none of them
\* is platform-specific, the last declaration that resolves to it.
C7_PlatformFirstElseLast ==
  \A d \in Range(DENSITIES) :
    IF SeenFor(d) = {} THEN d \notin DOMAIN android_icons
    ELSE /\ d \in DOMAIN android_icons
         /\ android_icons[d] = IF PlatformSeenFor(d) # {}
                               THEN Least(PlatformSeenFor(d))
                               ELSE Greatest(SeenFor(d))

C7_Witness ==
  /\ "mdpi" \in DOMAIN android_icons
  /\ SeenFor("mdpi") = {1, 2}
  /\ PlatformSeenFor("mdpi") = {}
  /\ configIcons[1].src # configIcons[2].src
  /\ android_icons["mdpi"] = 2

\* C8: once a platform-specific declaration holds a density slot, no later
\* declaration for that density, generic or platform-specific, replaces it.
C8_PlatformSlotKept ==
  [][ \A d \in DOMAIN android_icons :
        icons[android_icons[d]].platform # "" =>
          /\ d \in DOMAIN android_icons'
          /\ android_icons'[d] = android_icons[d] ]_vars

C8_Witness ==
  /\ "mdpi" \in DOMAIN android_icons
  /\ android_icons["mdpi"] = 1
  /\ icons[1].platform = "android"
  /\ i = 3
  /\ ResolvesTo(icons[2]) = "mdpi"
  /\ icons[2].platform = ""
  /\ icons[2].src # icons[1].src

\* the densities {mdpi, hdpi} are resolved, there is no default icon, and
\* updateIcons has handed its sync map to FileUpdater.updatePaths
OnlyMdpiAndHdpi ==
  /\ synced
  /\ DOMAIN android_icons = {"mdpi", "hdpi"}
  /\ default_icon = 0

IsXxxhdpi(path) == path[1] \in {"mipmap-xxxhdpi", "mipmap-xxxhdpi-v26"}

\* C9 as claimed: with exactly mdpi and hdpi resolved and no default icon the
\* sync map has no entry for a mipmap-xxxhdpi or mipmap-xxxhdpi-v26 path.
C9_NoXxxhdpiEntry ==
  OnlyMdpiAndHdpi => \A p \in DOMAIN resourceMap : ~IsXxxhdpi(p)

\* C9 as amended: with exactly mdpi and hdpi resolved and no default icon the
\* sync map maps no source to an xxxhdpi path; its xxxhdpi entries are the
\* delete sentinels of the launcher resources in the existing directories.
C9_NoXxxhdpiSource ==
  OnlyMdpiAndHdpi =>
    \A p \in DOMAIN resourceMap :
      IsXxxhdpi(p) => /\ resourceMap[p] = NULL
                      /\ p[1] \in dirs
                      /\ p \notin DOMAIN files

C9_Witness ==
  /\ OnlyMdpiAndHdpi
  /\ hasAdaptive
  /\ pc = "updateFileResources"
  /\ \E p \in DOMAIN resourceMap : p[1] = "mipmap-xxxhdpi"
  /\ \E p \in DOMAIN resourceMap : p[1] = "mipmap-xxxhdpi-v26"

\* the file name the legacy icon of a source gets
LegacyNameOf(src) ==
  IF endsWith(src, DOT_9_PNG)
  THEN <<"i","c","_","l","a","u","n","c","h","e","r",".","9",".","p","n","g">>
  ELSE <<"i","c","_","l","a","u","n","c","h","e","r">>
         \o toLowerCase(extname(basename(src)))

\* the legacy slots: every resolved density, and mdpi for the default icon
\* when no mdpi icon is resolved; each with the index of its declaration
LegacySlots ==
  { <<d, android_icons[d]>> : d \in DOMAIN android_icons }
    \cup (IF default_icon # 0 /\ "mdpi" \notin DOMAIN android_icons
          THEN { <<"mdpi", default_icon>> } ELSE {})

\* C10: the legacy target of a source whose name ends in '.9.png' is
\* mipmap-<density>/ic_launcher.9.png, that of any other source is
\* mipmap-<density>/ic_launcher plus the lower-cased last extension of the
\* source, and the directory gets no other file from the sync map.
C10_LegacyTargetName ==
  synced =>
    /\ \A slot \in LegacySlots :
         LET src == icons[slot[2]].src
             dir == "mipmap-" \o slot[1]
         IN  /\ << dir, LegacyNameOf(src) >> \in DOMAIN resourceMap
             /\ resourceMap[<< dir, LegacyNameOf(src) >>] = src
             /\ \A p \in DOMAIN resourceMap :
                  (p[1] = dir /\ resourceMap[p] # NULL) => p[2] = LegacyNameOf(src)
    /\ \A p \in DOMAIN resourceMap :
         /\ resourceMap[p] = SRC_B_9_PNG => p[2] = IC_LAUNCHER \o DOT_9_PNG
         /\ resourceMap[p] = SRC_D_9_PNG => p[2] = IC_LAUNCHER \o DOT_PNG
         /\ resourceMap[p] = SRC_C_JPG => p[2] = IC_LAUNCHER \o <<".","j","p","g">>

C10_Witness ==
  /\ synced
  /\ << "mipmap-mdpi", IC_LAUNCHER \o DOT_9_PNG >> \in DOMAIN resourceMap
  /\ resourceMap[<< "mipmap-mdpi", IC_LAUNCHER \o DOT_9_PNG >>] = SRC_B_9_PNG
  /\ << "mipmap-mdpi", IC_LAUNCHER \o DOT_9_PNG >> \in DOMAIN files
  /\ \E p \in DOMAIN resourceMap : resourceMap[p] = SRC_C_JPG


\* the declarations prepareIcons has dropped: they have a size, it is not in
\* the table, and they give no density
Dropped == { k \in 1..Processed : ~Sizeless(configIcons[k]) /\ ResolvesTo(configIcons[k]) = "" }

\* prepareIcons is running or has just returned
InPrepareIcons ==
  \/ pc = "prepareIcons"
  \/ /\ Processed = Len(icons)
     /\ pc \in {"updateIconResourceForAdaptive", "updateIconResourceForLegacy"}

\* C17: the density of a declaration is its explicit density, else the one
\* the table 36 ldpi, 48 mdpi, 72 hdpi, 96 xhdpi, 144 xxhdpi, 192 xxxhdpi gives
\* its width (its height when it has no width); a declaration whose size is
\* not in the table and that gives no density is dropped without an error:
\* it is neither in android_icons nor the default icon.
C17_DensityResolved ==
  /\ \A d \in DOMAIN android_icons :
       /\ android_icons[d] \in 1..Processed
       /\ ResolvesTo(configIcons[android_icons[d]]) = d
  /\ \A k \in 1..Processed :
       (~Sizeless(configIcons[k]) /\ ResolvesTo(configIcons[k]) # "") =>
          /\ ResolvesTo(configIcons[k]) \in DOMAIN android_icons
          /\ default_icon # k
  /\ \A k \in Dropped :
       /\ default_icon # k
       /\ \A d \in DOMAIN android_icons : android_icons[d] # k
  /\ InPrepareIcons => error = NoError

C17_Witness ==
  /\ pc = "done"
  /\ Len(configIcons) = 2
  /\ Dropped = {1}
  /\ configIcons[2].width = 0 /\ configIcons[2].height = 96 /\ configIcons[2].density = ""
  /\ DOMAIN android_icons = {"xhdpi"}
  /\ default_icon = 0


\* the targets the sync map copies a source to
Copied == { p \in DOMAIN resourceMap : resourceMap[p] # NULL }

\* the targets of the sync map in the legacy directory of a density
LegacyTargetsOf(d) == { p \in Copied : p[1] = "mipmap-" \o d }

\* the sources the sync map copies into the legacy directory of a density
LegacySourcesOf(d) == { resourceMap[p] : p \in LegacyTargetsOf(d) }

\* C18: the legacy pass maps, for every resolved density, the file
\* mipmap-<density>/ic_launcher<ext> to the src of the declaration kept for
\* that density; when there is a default icon and no mdpi declaration was
\* resolved it maps mipmap-mdpi/ic_launcher<ext> to the default icon's src;
\* when mdpi was resolved the default icon adds no entry.
C18_LegacyEntries ==
  synced =>
    LET copied == Copied IN
    \A d \in Range(DENSITIES) :
      LET targets == { p \in copied : p[1] = "mipmap-" \o d }
          sources == { resourceMap[p] : p \in targets }
      IN  /\ sources =
               IF d \in DOMAIN android_icons THEN { icons[android_icons[d]].src }
               ELSE IF d = "mdpi" /\ default_icon # 0 THEN { icons[default_icon].src }
               ELSE {}
          /\ Cardinality(targets) = Cardinality(sources)
          /\ \A p \in targets :
               startsWith(p[2], <<"i","c","_","l","a","u","n","c","h","e","r",".">>)

C18_Witness ==
  /\ pc = "done"
  /\ default_icon = 1
  /\ DOMAIN android_icons = {"hdpi"}
  /\ icons[1].src = SRC_B_9_PNG
  /\ LegacySourcesOf("mdpi") = { SRC_B_9_PNG }
  /\ LegacySourcesOf("hdpi") = { icons[2].src }
  /\ << "mipmap-mdpi", IC_LAUNCHER \o DOT_9_PNG >> \in DOMAIN files


\* the declaration kept for a density has a background and a foreground
AdaptiveAt(d) ==
  /\ d \in DOMAIN android_icons
  /\ icons[android_icons[d]].background # NULL
  /\ icons[android_icons[d]].foreground # NULL

DescriptorPath(d) ==
  << "mipmap-" \o d \o "-v26", <<"i","c","_","l","a","u","n","c","h","e","r",".","x","m","l">> >>

\* updateIconResourceForAdaptive has returned
AdaptivePassReturned ==
  /\ hasAdaptive
  /\ \/ pc \in {"updateIconResourceForLegacy", "updateFileResources", "prepared", "done"}
     \/ synced

\* C15: for every resolved density whose declaration has a background and a
\* foreground, the adaptive pass writes mipmap-<density>-v26/ic_launcher.xml
\* and takes that path out of the sync map; neither the legacy pass nor
\* updatePaths deletes it, so the descriptor exists after updateIcons.
C15_DescriptorKept ==
  AdaptivePassReturned =>
    \A d \in Range(DENSITIES) :
      AdaptiveAt(d) =>
        /\ DescriptorPath(d) \in DOMAIN files
        /\ files[DescriptorPath(d)].xml # <<>>
        /\ DescriptorPath(d) \notin DOMAIN resourceMap

C15_Witness ==
  /\ pc = "done"
  /\ AdaptiveAt("mdpi")
  /\ AdaptiveAt("hdpi")
  /\ DescriptorPath("mdpi") \in DOMAIN files
  /\ DescriptorPath("hdpi") \in DOMAIN files
  /\ \E p \in DOMAIN resourceMap : p[1] = "mipmap-hdpi-v26" /\ resourceMap[p] = NULL


\* updateIconResourceForAdaptive has run: it returned or it raised
AdaptivePassRan ==
  /\ hasAdaptive
  /\ Len(icons) > 0
  /\ i = Len(icons) + 1
  /\ pc # "updateIconResourceForAdaptive"

\* the error that ended prepare was raised by updateIconResourceForAdaptive
AdaptivePassRaised == AdaptivePassRan /\ pc = "failed" /\ ~synced

\* the default icon stands in for mdpi
DefaultFallback == default_icon # 0 /\ "mdpi" \notin DOMAIN android_icons

\* the layers of a declaration that are files, not color references
FileLayers(icon) ==
  { v \in { icon.background, icon.foreground, icon.monochrome } :
      v # NULL /\ ~startsWith(v, AT_COLOR) }

\* the sources the sync map copies into mipmap-mdpi-v26
MdpiAdaptiveSources ==
  { resourceMap[p] : p \in { q \in DOMAIN resourceMap :
                               q[1] = "mipmap-mdpi-v26" /\ resourceMap[q] # NULL } }

\* C19: for an icon set that passes validation and has an adaptive
\* declaration, when no mdpi declaration was resolved and there is a default
\* icon, the adaptive pass returns without raising and maps the default
\* icon's own background, foreground and monochrome files into
\* mipmap-mdpi-v26.
C19_DefaultAssetsMapped ==
  (AdaptivePassRan /\ DefaultFallback) =>
     /\ ~AdaptivePassRaised
     /\ FileLayers(icons[default_icon]) \subseteq MdpiAdaptiveSources

\* the pass raises for a single declaration, an adaptive default icon
C19_Witness ==
  /\ AdaptivePassRaised
  /\ DefaultFallback
  /\ Len(icons) = 1
  /\ icons[1].foreground = FG_PNG
  /\ icons[1].background = BG_PNG
  /\ error.name = "TypeError"


\* the declaration of the last density the loop of the adaptive pass iterated
LastIterated == icons[android_icons[android_keys[Len(android_keys)]]]

\* what the fallback maps for one layer when its kind is the kind of
\* `classifier`: nothing for a color, <stem>.xml for a vector, <stem>.png for
\* a raster (.9.png when the source is a nine-patch), each from `value`
FallbackEntry(classifier, value, stem, colorIsTested) ==
  IF classifier = NULL THEN {}
  ELSE IF colorIsTested /\ startsWith(classifier, AT_COLOR) THEN {}
  ELSE IF endsWith(classifier, <<".","x","m","l">>)
  THEN { << << "mipmap-mdpi-v26", stem \o <<".","x","m","l">> >>, value >> }
  ELSE IF endsWith(classifier, <<".","p","n","g">>)
  THEN { << << "mipmap-mdpi-v26",
               stem \o (IF endsWith(value, <<".","9",".","p","n","g">>)
                        THEN <<".","9",".","p","n","g">> ELSE <<".","p","n","g">>) >>,
            value >> }
  ELSE {}

\* the entries of the sync map that copy a source into mipmap-mdpi-v26
MdpiAdaptiveEntries ==
  { << p, resourceMap[p] >> : p \in { q \in DOMAIN resourceMap :
                                        q[1] = "mipmap-mdpi-v26" /\ resourceMap[q] # NULL } }

ComponentValue(text) ==
  CASE text = <<"1">> -> 1
    [] text = <<"2">> -> 2
    [] text = <<"3">> -> 3
    [] text = <<"4">> -> 4
    [] text = <<"1","2">> -> 12
    [] OTHER -> 0

\* the k-th component of the version before its suffix, 0 when it is missing
ComponentAt(k) ==
  IF k <= Len(versionParts.parts) THEN ComponentValue(versionParts.parts[k]) ELSE 0

\* C11: default_versionCode gives MAJOR*10000 + MINOR*100 + PATCH of the
\* dotted version that precedes any '-' suffix, a missing or non-numeric
\* component counting as 0; "2.3.4" gives 20304 and "1.0" gives 10000.
C11_VersionCode ==
  pc = "versionCode" =>
    /\ versionCode = ComponentAt(1) * 10000 + ComponentAt(2) * 100 + ComponentAt(3)
    /\ version = <<"2",".","3",".","4">> => versionCode = 20304
    /\ version = <<"1",".","0">> => versionCode = 10000

C11_Witness ==
  /\ pc = "versionCode"
  /\ version = <<"1","2",".","x",".","3","-","r","c",".","1">>
  /\ versionCode = 120003


\* updateProjectTheme has run with the preferences the state holds
ThemeMaterialized == pc = "updateProjectTheme" /\ themeRuns > 0

\* the value of the AndroidEdgeToEdge preference of the last run
E2EPreference == preferences[<<"A","n","d","r","o","i","d","E","d","g","e","T","o","E","d","g","e">>]

\* the text of the item android:windowOptOutEdgeToEdgeEnforcement
OptOutItem == themes.items[<<"a","n","d","r","o","i","d",":","w","i","n","d","o","w","O","p","t","O","u","t","E","d","g","e","T","o","E","d","g","e","E","n","f","o","r","c","e","m","e","n","t">>]

InvalidE2EDiagnosed ==
  \E k \in 1..Len(events) :
    events[k].message = "Preference name AndroidEdgeToEdge has an invalid value. Valid values are true or false. Defaulting to false"

\* C12 as claimed: AndroidEdgeToEdge resolves to true only for "true"; any
\* other non-empty value resolves to false with a diagnostic; an absent value
\* resolves to false; the item android:windowOptOutEdgeToEdgeEnforcement is
\* written as the negation of the resolved value.
C12_OtherValuesDiagnosed ==
  ThemeMaterialized =>
    /\ E2EPreference = <<"t","r","u","e">> => OptOutItem = <<"f","a","l","s","e">>
    /\ E2EPreference # <<"t","r","u","e">> => OptOutItem = <<"t","r","u","e">>
    /\ (E2EPreference # <<>> /\ E2EPreference # <<"t","r","u","e">>) => InvalidE2EDiagnosed

\* C12 as amended: AndroidEdgeToEdge resolves to true only for "true"; the
\* value "false" resolves to false without a diagnostic about its value; any
\* other non-empty value, "TRUE" included, resolves to false with the
\* diagnostic that the value is invalid; an absent value resolves to false;
\* the item android:windowOptOutEdgeToEdgeEnforcement is written as the
\* negation of the resolved value.
C12_InvalidValuesDiagnosed ==
  ThemeMaterialized =>
    /\ E2EPreference = <<"t","r","u","e">> => OptOutItem = <<"f","a","l","s","e">>
    /\ E2EPreference # <<"t","r","u","e">> => OptOutItem = <<"t","r","u","e">>
    /\ InvalidE2EDiagnosed <=>
         (E2EPreference # <<>> /\ E2EPreference # <<"t","r","u","e">> /\ E2EPreference # <<"f","a","l","s","e">>)

C12_Witness ==
  /\ ThemeMaterialized
  /\ themeRuns = 2
  /\ E2EPreference = <<"T","R","U","E">>
  /\ OptOutItem = <<"t","r","u","e">>
  /\ InvalidE2EDiagnosed


IconBackgroundPreference == preferences[PREF.iconBackgroundColor]

IconBackgroundNode == TEXT.iconBackgroundNode \in DOMAIN colors

IconBackgroundItem == ITEM.iconBackgroundColor \in DOMAIN themes.items

\* a run without the preference on a project whose colors hold the node
ClearsIconBackground ==
  /\ IconBackgroundNode
  /\ preferences'[PREF.iconBackgroundColor] = NULL

\* C13: after every run of updateProjectTheme the color node
\* cdv_splashscreen_icon_background exists exactly when the config.xml of
\* that run gave AndroidWindowSplashScreenIconBackgroundColor a value, the
\* theme item windowSplashScreenIconBackgroundColor exists exactly when the
\* node does, and a run without the preference on colors that hold the node
\* leaves colors without it.
C13_IconBackgroundNode ==
  /\ [](ThemeMaterialized =>
          /\ IconBackgroundNode <=> IconBackgroundPreference # NULL
          /\ IconBackgroundItem <=> IconBackgroundNode)
  /\ [][ClearsIconBackground => TEXT.iconBackgroundNode \notin DOMAIN colors']_vars

\* a second run without the preference: neither the node nor the item is left
C13_Witness ==
  /\ ThemeMaterialized
  /\ themeRuns >= 2
  /\ IconBackgroundPreference = NULL
  /\ ~IconBackgroundNode
  /\ ~IconBackgroundItem


Cleaned == pc = "cleaned"

CleanSkipped == cleanCall.noPrepare \/ ~cleanCall.configXml

\* ic_launcher and its three layers, each as .png and as .xml
RecognizedNames ==
  { stem \o ext : stem \in { IC_LAUNCHER, IC_FOREGROUND, IC_BACKGROUND, IC_MONOCHROME },
                  ext \in { DOT_PNG, DOT_XML } }

PreparedAgain == firstPrepare # NoOutput /\ pc \in { "done", "failed" }

\* C14: a prepare that follows a successful prepare and a clean, config.xml
\* being the same, succeeds and leaves the launcher icons, the adaptive
\* descriptors, the artifacts, the theme, the colors and the splash images
\* as the first prepare left them.
C14_Reproduced ==
  PreparedAgain =>
    /\ pc = "done"
    /\ Output(files, dirs, written, themes, colors, drawables) = firstPrepare

\* the second prepare is done after a clean that deleted the adaptive icon of
\* the first, the www directory and the resource files
C14_Witness ==
  /\ PreparedAgain
  /\ pc = "done"
  /\ ~CleanSkipped
  /\ hasAdaptive
  /\ \E d \in dirs : << d, IC_LAUNCHER \o DOT_XML >> \in DOMAIN files
  /\ { "www", "resource-files" } \subseteq written
  /\ TEXT.iconBackgroundNode \in DOMAIN colors


\* the declaration resolved for density d has a monochrome layer but not both
\* a background and a foreground
MonochromeAlone(d) ==
  /\ d \in DOMAIN android_icons
  /\ icons[android_icons[d]].monochrome # NULL
  /\ ~AdaptiveAt(d)

\* nothing of a monochrome layer or of an adaptive icon is there for density d
MonochromeDropped(d) ==
  /\ \A p \in Copied :
       p[1] = "mipmap-" \o d \o "-v26" => ~startsWith(p[2], IC_MONOCHROME)
  /\ DescriptorPath(d) \notin DOMAIN files

MonochromeWarnings ==
  { k \in 1..Len(events) :
      /\ events[k].level = "warn"
      /\ events[k].message = "Monochrome icon found but without adaptive properties." }

\* C21: once updateIcons has synchronised, every resolved density whose
\* declaration has a monochrome layer without both background and foreground
\* has no monochrome file mapped and no adaptive descriptor, and a warning
\* about the monochrome layer was emitted.
C21_DroppedWithWarning ==
  synced =>
    \A d \in DOMAIN android_icons :
      MonochromeAlone(d) => MonochromeDropped(d) /\ MonochromeWarnings # {}

\* a monochrome layer on the only declaration, a legacy icon: it is dropped,
\* the adaptive pass never ran and nothing was said
C21_Witness ==
  /\ synced
  /\ ~hasAdaptive
  /\ \E d \in DOMAIN android_icons : MonochromeAlone(d) /\ MonochromeDropped(d)
  /\ MonochromeWarnings = {}


\* what the steps of prepare write, in the order the claim gives them; the
\* launcher icons are the fifth step and are not listed by name
StepArtifacts ==
  << { "config.xml" },
     { "cdv-gradle-config.json", "gradle.properties" },
     { "www" },
     { "cdv_strings.xml", "cdv_themes.xml", "AndroidManifest.xml" },
     { "resource-files" } >>

\* something of step k is written only when all of the steps before it is
InStepOrder ==
  \A j, k \in 1..Len(StepArtifacts) :
    (j < k /\ StepArtifacts[k] \cap written # {}) => StepArtifacts[j] \subseteq written

\* updateIcons has touched the launcher icons
IconsTouched == synced \/ DOMAIN files # {}

Succeeded ==
  \E k \in 1..Len(events) : events[k].message = "Prepared android project successfully"

\* C22: the artifacts of prepare appear in the order config merge, gradle
\* config, www, strings/theme/manifest, icons, file resources; after a step
\* has raised, updateFileResources has not run, the success message is not
\* emitted and no further step is taken; no step takes back an artifact that
\* an earlier step wrote.
C22_StepsInOrder ==
  /\ [](/\ InStepOrder
        /\ IconsTouched => StepArtifacts[4] \subseteq written
        /\ ("resource-files" \in written /\ configIcons # <<>>) => synced
        /\ pc = "failed" => ("resource-files" \notin written /\ ~Succeeded)
        /\ Succeeded => pc = "done")
  /\ [][/\ pc # "failed"
        /\ written \subseteq written'
        /\ pc' = "failed" => \A p \in DOMAIN files : p \in DOMAIN files' /\ files'[p] = files[p]]_vars

\* updateIcons raised after the adaptive pass had written a descriptor: the
\* descriptor and the artifacts of the earlier steps are there, the resource
\* files are not
C22_Witness ==
  /\ pc = "failed"
  /\ DOMAIN files # {}
  /\ StepArtifacts[4] \subseteq written
  /\ "resource-files" \notin written
  /\ ~Succeeded


\* the two places of a splash screen image
PngOf(name) == << "drawable-nodpi", name \o <<".","p","n","g">> >>

XmlOf(name) == << "drawable", name \o <<".","x","m","l">> >>

\* the value names a file of the project whose extension is ext in any case
ExistingWith(value, ext) ==
  value \in ProjectFiles /\ endsWith(toLowerCase(value), ext)

UnsetOrMissing(value) == value = NULL \/ value \notin ProjectFiles

\* what the claim expects of the image called name for the preference value;
\* the default is the bundled drawable, NULL for an image that has none
ImageResolved(name, value, default) ==
  /\ ExistingWith(value, <<".","p","n","g">>) =>
       /\ PngOf(name) \in DOMAIN drawables /\ drawables[PngOf(name)] = value
       /\ XmlOf(name) \notin DOMAIN drawables
  /\ ExistingWith(value, <<".","x","m","l">>) =>
       /\ XmlOf(name) \in DOMAIN drawables /\ drawables[XmlOf(name)] = value
       /\ PngOf(name) \notin DOMAIN drawables
  /\ (UnsetOrMissing(value) /\ default # NULL) =>
       /\ XmlOf(name) \in DOMAIN drawables /\ drawables[XmlOf(name)] = default
       /\ PngOf(name) \notin DOMAIN drawables
  /\ (UnsetOrMissing(value) /\ default = NULL) =>
       /\ XmlOf(name) \notin DOMAIN drawables
       /\ PngOf(name) \notin DOMAIN drawables
  /\ ~(PngOf(name) \in DOMAIN drawables /\ XmlOf(name) \in DOMAIN drawables)

BrandingPreference == preferences[<<"A","n","d","r","o","i","d","W","i","n","d","o","w","S","p","l","a","s","h","S","c","r","e","e","n","B","r","a","n","d","i","n","g","I","m","a","g","e">>]

BrandingItem == <<"a","n","d","r","o","i","d",":","w","i","n","d","o","w","S","p","l","a","s","h","S","c","r","e","e","n","B","r","a","n","d","i","n","g","I","m","a","g","e">> \in DOMAIN themes.items

BrandingFile ==
  \/ XmlOf(<<"i","c","_","c","d","v","_","s","p","l","a","s","h","s","c","r","e","e","n","_","b","r","a","n","d","i","n","g">>) \in DOMAIN drawables
  \/ PngOf(<<"i","c","_","c","d","v","_","s","p","l","a","s","h","s","c","r","e","e","n","_","b","r","a","n","d","i","n","g">>) \in DOMAIN drawables

\* C24: after updateProjectTheme has run, the item
\* android:windowSplashScreenBrandingImage is in the splash style exactly when
\* the run's config.xml set AndroidWindowSplashScreenBrandingImage, the root
\* has xmlns:tools exactly when the item is there, and when the item is there
\* one of the two branding image files exists.
C24_BrandingConsistent ==
  ThemeMaterialized =>
    /\ BrandingItem <=> BrandingPreference # NULL
    /\ themes.tools <=> BrandingItem
    /\ BrandingItem => BrandingFile

\* the preference names a file that does not exist: the item refers to
\* @drawable/ic_cdv_splashscreen_branding and neither file is there
C24_Witness ==
  /\ ThemeMaterialized
  /\ BrandingPreference \notin ProjectFiles \cup { NULL }
  /\ BrandingItem
  /\ themes.items[<<"a","n","d","r","o","i","d",":","w","i","n","d","o","w","S","p","l","a","s","h","S","c","r","e","e","n","B","r","a","n","d","i","n","g","I","m","a","g","e">>] = <<"@","d","r","a","w","a","b","l","e","/","i","c","_","c","d","v","_","s","p","l","a","s","h","s","c","r","e","e","n","_","b","r","a","n","d","i","n","g">>
  /\ ~BrandingFile


\* the three layers of an adaptive icon, in the order of the descriptor
LayerStems ==
  << <<"i","c","_","l","a","u","n","c","h","e","r","_","b","a","c","k","g","r","o","u","n","d">>, <<"i","c","_","l","a","u","n","c","h","e","r","_","f","o","r","e","g","r","o","u","n","d">>, <<"i","c","_","l","a","u","n","c","h","e","r","_","m","o","n","o","c","h","r","o","m","e">> >>

\* the layers of the declaration kept for a density, in the same order
LayersAt(d) ==
  << icons[android_icons[d]].background,
     icons[android_icons[d]].foreground,
     icons[android_icons[d]].monochrome >>

\* the file names that the reference @mipmap/<stem> resolves to
ResourceFiles(stem) ==
  { stem \o <<".","x","m","l">>, stem \o <<".","p","n","g">>, stem \o <<".","9",".","p","n","g">> }

\* the sync map copies a source file to the layer's name in mipmap-<d>-v26
LayerCopied(d, k) ==
  \E p \in Copied :
    /\ p[1] = "mipmap-" \o d \o "-v26"
    /\ p[2] \in ResourceFiles(LayerStems[k])

IsColor(value) == Len(value) >= 6 /\ SubSeq(value, 1, 6) = <<"@","c","o","l","o","r">>

\* C25: every @mipmap/ic_launcher_background, _foreground or _monochrome
\* reference in a generated mipmap-<density>-v26/ic_launcher.xml has an entry
\* of the sync map that copies a source file to that name in the same
\* directory, and a layer given as a color reference is written verbatim and
\* maps no file.
C25_ReferencesResolve ==
  AdaptivePassReturned =>
    \A d \in Range(DENSITIES) :
      (AdaptiveAt(d) /\ DescriptorPath(d) \in DOMAIN files) =>
        \A k \in 1..3 :
          /\ files[DescriptorPath(d)].xml[k] = <<"@","m","i","p","m","a","p","/">> \o LayerStems[k]
               => LayerCopied(d, k)
          /\ IsColor(LayersAt(d)[k])
               => /\ files[DescriptorPath(d)].xml[k] = LayersAt(d)[k]
                  /\ ~LayerCopied(d, k)

\* a descriptor written for an icon whose monochrome layer is a color
\* reference: it names @mipmap/ic_launcher_monochrome and no file is copied
C25_Witness ==
  /\ pc = "done"
  /\ AdaptiveAt("mdpi")
  /\ IsColor(LayersAt("mdpi")[3])
  /\ DescriptorPath("mdpi") \in DOMAIN files
  /\ files[DescriptorPath("mdpi")].xml[3] = <<"@","m","i","p","m","a","p","/">> \o LayerStems[3]
  /\ ~LayerCopied("mdpi", 3)
  /\ LayerCopied("mdpi", 2)


\* the second project has prepared the last config.xml of the first
ComparedRuns == firstPrepare # NoOutput /\ pc = "done" /\ themeRuns = 3

\* C26: the launcher icon files that prepare with a config.xml A and then
\* prepare with a config.xml B leave are the files that prepare with B alone
\* leaves on a fresh project, whatever A and B declare.
C26_OnlyCurrentConfig ==
  ComparedRuns => DOMAIN firstPrepare.files = DOMAIN files

\* the nine-patch icon of the first config.xml is still there after the
\* prepare of a second that declares a plain icon for mdpi, and a fresh
\* project prepared with the second does not have it
C26_Witness ==
  /\ ComparedRuns
  /\ << "mipmap-mdpi", <<"i","c","_","l","a","u","n","c","h","e","r",".","9",".","p","n","g">> >> \in DOMAIN firstPrepare.files
  /\ << "mipmap-mdpi", <<"i","c","_","l","a","u","n","c","h","e","r",".","9",".","p","n","g">> >> \notin DOMAIN files
  /\ << "mipmap-mdpi", <<"i","c","_","l","a","u","n","c","h","e","r",".","p","n","g">> >> \in DOMAIN files

====
